---- MODULE Spec2Model ----
(***************************************************************************)
(* Threshold ECDSA interactive signing (CGGMP21): the presigning rounds,   *)
(* the signing round and the generic session driver that runs them.        *)
(*                                                                         *)
(* Curve: the arithmetic runs on the curve y^2 = x^3 + 7 (the secp256k1    *)
(* equation) over F_43, whose group has prime order 31.  A point is kept   *)
(* as its discrete logarithm to the base G (0 is the identity), a scalar   *)
(* as an integer modulo the group order.                                   *)
(* Paillier: a ciphertext is kept as the pair (key owner, plaintext); the  *)
(* homomorphic operations act on the plaintext.                            *)
(* Randomness: every party owns a generator; the n-th value a party draws  *)
(* is a fixed function of its seed.                                        *)
(***************************************************************************)
EXTENDS Integers, Sequences, FiniteSets, TLC

\* ------------------------------------------------------------------ bounds

\* Seeds of the random-number source run over 0..MaxSeed.
MaxSeed == 3
\* Prehashed messages run over 0..MaxMessage (as scalars).
MaxMessage == 2
\* The caller of a session stops handing it next-round messages once its
\* cache holds MaxCache of them.
MaxCache == 2

\* ------------------------------------------------------- program constants

\* Number of parties of the signing tests.
NumParties == 3
\* Order of the curve group (the toy curve's; secp256k1's in the program).
ORDER == 31
\* Bit bounds l and l' of the range proofs and of the beta masks.
L_BOUND == 5
LP_BOUND == 10
\* The shared randomness every session of a run is given.
SharedRandomness == 1234567890

Parties == 0 .. (NumParties - 1)
Scalars == 0 .. (ORDER - 1)
Points == 0 .. (ORDER - 1)

\* x and y coordinates of d*G, d = 1..30, on y^2 = x^3 + 7 over F_43, G = (2, 12).
CurveX ==
  << 2, 7, 35, 21, 12, 29, 25, 32, 20, 42, 40, 37, 13, 34, 38,
     38, 34, 13, 37, 40, 42, 20, 32, 25, 29, 12, 21, 35, 7, 2 >>
CurveY ==
  << 12, 7, 21, 18, 12, 31, 18, 40, 40, 7, 25, 36, 21, 40, 21,
     22, 3, 22, 7, 18, 36, 3, 3, 25, 12, 31, 25, 22, 36, 31 >>

\* ---------------------------------------------------- curve: Scalar, Point

Mod(a, n) == ((a % n) + n) % n

ScalarAdd(a, b) == Mod(a + b, ORDER)
ScalarMul(a, b) == Mod(a * b, ORDER)
ScalarNeg(a) == Mod(0 - a, ORDER)

\* Scalar::invert: None (here -1) for zero.
invert(a) ==
  IF Mod(a, ORDER) = 0 THEN -1
  ELSE CHOOSE b \in 1 .. (ORDER - 1) : Mod(a * b, ORDER) = 1

\* IsHigh: the scalar lies in the upper half of the order.
is_high(s) == s > (ORDER - 1) \div 2

\* Scalar::normalize that returns the scalar as it is.
normalize_keep(s) == s

normalize(s) == IF is_high(s) THEN ScalarNeg(s) ELSE s

GENERATOR == 1
IDENTITY == 0

PointAdd(p, q) == Mod(p + q, ORDER)
PointMul(p, s) == Mod(p * s, ORDER)
mul_by_generator(s) == PointMul(GENERATOR, s)

\* Point::x_coordinate: the affine x-coordinate reduced modulo the order.
x_coordinate(p) == IF p = IDENTITY THEN 0 ELSE CurveX[p] % ORDER

\* Parity of the affine y-coordinate (the recovery byte before normalisation).
y_is_odd(p) == IF p = IDENTITY THEN 0 ELSE CurveY[p] % 2

RECURSIVE SumOver(_, _)
\* Sum (as integers) of f over the finite set S of its domain.
SumOver(f, S) ==
  IF S = {} THEN 0
  ELSE LET e == CHOOSE e \in S : TRUE IN f[e] + SumOver(f, S \ {e})

ScalarSum(f, S) == Mod(SumOver(f, S), ORDER)
PointSum(f, S) == Mod(SumOver(f, S), ORDER)

\* Signed::to_scalar: a signed integer reduced modulo the order.
to_scalar(v) == Mod(v, ORDER)

Pow2(n) == IF n = 0 THEN 1 ELSE 2 ^ n

\* --------------------------------------------------- random-number source

RECURSIVE Lcg(_, _)
\* State of a linear congruential generator after n steps from state s.
Lcg(s, n) == IF n = 0 THEN s ELSE Lcg((s * 1103 + 12345) % 7919, n - 1)

\* The n-th raw value of the generator `rng` (n >= 1).
Draw(rng, n) == Lcg(rng, n) \div 7

\* Scalar::random: the n-th draw as a scalar.
ScalarRandom(rng, n) == Draw(rng, n) % ORDER

\* Signed::random_bounded_bits: the n-th draw as an integer of [-2^bits, 2^bits].
random_bounded_bits(rng, n, bits) ==
  (Draw(rng, n) % (2 * Pow2(bits) + 1)) - Pow2(bits)

\* The generator a party's session is handed, for seed s.
PartyRng(s, idx) == (s * (NumParties + 1) + idx + 1) * 97 % 7919
\* The generator centralized key generation is handed.
KeygenRng(s) == (s * (NumParties + 1) + NumParties + 1) * 97 % 7919

\* --------------------------------------------------------------- Paillier

\* Ciphertext::new_with_randomizer(_signed): plaintext pt under the key of `pk`.
Ciphertext(pk, pt) == [pk |-> pk, pt |-> pt]

homomorphic_mul(pk, c, s) == [pk |-> c.pk, pt |-> c.pt * s]
homomorphic_add(pk, c1, c2) == [pk |-> c1.pk, pt |-> c1.pt + c2.pt]

\* Ciphertext::decrypt_signed with the secret key of party `sk`: the plaintext
\* for a ciphertext under that key, an unrelated value for any other.
decrypt_signed(c, sk) == IF c.pk = sk THEN c.pt ELSE (c.pt * 7 + 3 + c.pk) % 29

\* ------------------------------------------------------------- key shares

HoleRange(n, hole) == (0 .. (n - 1)) \ {hole}

\* KeyShare::new_centralized: a non-zero secret split into additive shares.
KeyShares(seed) ==
  LET rng == KeygenRng(seed)
      secret == 1 + (Draw(rng, 1) % (ORDER - 1))
      head == [i \in 0 .. (NumParties - 2) |-> ScalarRandom(rng, i + 2)]
      last == Mod(secret - SumOver(head, DOMAIN head), ORDER)
      shares == [i \in Parties |-> IF i = NumParties - 1 THEN last ELSE head[i]]
  IN [i \in Parties |->
        [index |-> i,
         secret_share |-> shares[i],
         public_shares |-> [j \in Parties |-> mul_by_generator(shares[j])]]]

verifying_key_as_point(key_share) ==
  PointSum(key_share.public_shares, Parties)

\* ------------------------------------------------ zero-knowledge proofs
\* An Enc or LogStar proof is kept as the statement its witness satisfies and
\* whether the witness lies in the proved range: it verifies against exactly
\* that statement and auxiliary data.

InRange(v, bits) == (0 - Pow2(bits)) <= v /\ v <= Pow2(bits)

EncProof_random(secret, pk, rp, aux) ==
  << "EncProof", InRange(secret, L_BOUND), pk, Ciphertext(pk, secret), rp, aux >>

EncProof_verify(proof, pk, cap_k, rp, aux) ==
  proof = << "EncProof", TRUE, pk, cap_k, rp, aux >>

\* The AffG proof of the sources keeps the two public keys and verifies
\* against them alone.
AffGProof_random(x, y, pk0, pk1, cap_c, rp, aux) ==
  << "AffGProof", pk0, pk1 >>

AffGProof_verify(proof, pk0, pk1, cap_c, cap_d, cap_y, cap_x, rp, aux) ==
  proof[2] = pk0 /\ proof[3] = pk1

LogStarProof_random(x, pk, base, rp, aux) ==
  << "LogStarProof", InRange(x, L_BOUND), pk, Ciphertext(pk, x), base,
     PointMul(base, to_scalar(x)), rp, aux >>

LogStarProof_verify(proof, pk, cap_c, base, cap_x, rp, aux) ==
  proof = << "LogStarProof", TRUE, pk, cap_c, base, cap_x, rp, aux >>

\* The Mul and Dec proofs of the failure branch of Round 3, kept the same way.
MulProof_random(x, pk, cap_y, aux) ==
  << "MulProof", pk, Ciphertext(pk, x), cap_y, homomorphic_mul(pk, cap_y, x), aux >>

MulProof_verify(proof, pk, cap_x, cap_y, cap_c, aux) ==
  proof = << "MulProof", pk, cap_x, cap_y, cap_c, aux >>

DecProof_random(x, pk, rp, aux) ==
  << "DecProof", pk, to_scalar(x), Ciphertext(pk, x), rp, aux >>

DecProof_verify(proof, pk, x, cap_c, rp, aux) ==
  proof = << "DecProof", pk, x, cap_c, rp, aux >>

\* ------------------------------------------------------- presigning rounds

\* Position of idx in HoleRange(NumParties, hole).
HolePos(idx, hole) == IF idx < hole THEN idx ELSE idx - 1

Broadcast(message) == [kind |-> "Broadcast", message |-> message]
Direct(messages) == [kind |-> "Direct", messages |-> messages]

AnotherRound(round) == [outcome |-> "AnotherRound", round |-> round]
Result(res) == [outcome |-> "Result", result |-> res]
FinalizeError(err) == [outcome |-> "Err", error |-> err]
\* An unwrap of None or a failed assert inside finalize.
Panic(what) == [outcome |-> "Panic", error |-> what]

ReceiveOk(payload) == [ok |-> TRUE, payload |-> payload]
VerificationFail(what) == [ok |-> FALSE, error |-> what]

\* FirstRound::new of Round1Part1.
Round1Part1_new(rng, shared_randomness, key_share) ==
  LET ephemeral_scalar_share == ScalarRandom(rng, 1)
      gamma == ScalarRandom(rng, 2)
      pk == key_share.index
  IN [context |->
        [shared_randomness |-> shared_randomness,
         key_share |-> key_share,
         ephemeral_scalar_share |-> ephemeral_scalar_share,
         gamma |-> gamma],
      k_ciphertext |-> Ciphertext(pk, ephemeral_scalar_share),
      g_ciphertext |-> Ciphertext(pk, gamma)]

Round1Part1_to_send(round) ==
  Broadcast([k_ciphertext |-> round.k_ciphertext,
             g_ciphertext |-> round.g_ciphertext])

Round1Part1_verify_received(round, from, msg) == ReceiveOk(msg)

\* Round1Part1::finalize that puts the party's own ciphertexts at the last
\* index, after those of the others.
Round1Part1_finalize_own_last(round, rng, payloads) ==
  LET my_idx == round.context.key_share.index
      others == DOMAIN payloads
      order == [n \in 0 .. NumParties - 2 |->
                  CHOOSE j \in others : Cardinality({l \in others : l < j}) = n]
  IN AnotherRound(
       [context |-> round.context,
        k_ciphertexts |-> [j \in Parties |->
           IF j = NumParties - 1 THEN round.k_ciphertext
           ELSE payloads[order[j]].k_ciphertext],
        g_ciphertexts |-> [j \in Parties |->
           IF j = NumParties - 1 THEN round.g_ciphertext
           ELSE payloads[order[j]].g_ciphertext]])

Round1Part1_finalize(round, rng, payloads) ==
  LET my_idx == round.context.key_share.index
  IN AnotherRound(
       [context |-> round.context,
        k_ciphertexts |-> [j \in Parties |->
           IF j = my_idx THEN round.k_ciphertext ELSE payloads[j].k_ciphertext],
        g_ciphertexts |-> [j \in Parties |->
           IF j = my_idx THEN round.g_ciphertext ELSE payloads[j].g_ciphertext]])

Round1Part2_to_send(round, rng) ==
  LET my_idx == round.context.key_share.index
  IN Direct([idx \in HoleRange(NumParties, my_idx) |->
       [proof |-> EncProof_random(
                    round.context.ephemeral_scalar_share,
                    my_idx,
                    idx,
                    << round.context.shared_randomness, idx >>)]])

Round1Part2_verify_received(round, from, msg) ==
  LET my_idx == round.context.key_share.index
      aux == << round.context.shared_randomness, my_idx >>
  IN IF EncProof_verify(msg.proof, from, round.k_ciphertexts[from], my_idx, aux)
     THEN ReceiveOk(<< >>)
     ELSE VerificationFail("Failed to verify EncProof")

\* Round2::new: the beta-hat masks first, then a beta mask per recipient.
Round2_new(rng, round1) ==
  LET my_idx == round1.context.key_share.index
      range == HoleRange(NumParties, my_idx)
      betas_hat == [idx \in range |->
         random_bounded_bits(rng, 5 + HolePos(idx, my_idx), LP_BOUND)]
      protocols == [idx \in range |->
         LET beta == random_bounded_bits(
                       rng, 5 + (NumParties - 1) + 2 * HolePos(idx, my_idx), LP_BOUND)
         IN [beta |-> beta, cap_f |-> Ciphertext(my_idx, beta)]]
  IN [context |-> round1.context,
      k_ciphertexts |-> round1.k_ciphertexts,
      g_ciphertexts |-> round1.g_ciphertexts,
      betas_hat |-> betas_hat,
      protocols |-> protocols]

Round1Part2_finalize(round, rng, payloads) ==
  AnotherRound(Round2_new(rng, round))

Round2_to_send(round, rng) ==
  LET ctx == round.context
      my_idx == ctx.key_share.index
      aux == << ctx.shared_randomness, my_idx >>
      gamma == mul_by_generator(ctx.gamma)
  IN Direct([idx \in HoleRange(NumParties, my_idx) |->
       LET beta == round.protocols[idx].beta
           beta_hat == round.betas_hat[idx]
           d == homomorphic_add(idx,
                  homomorphic_mul(idx, round.k_ciphertexts[idx], ctx.gamma),
                  Ciphertext(idx, 0 - beta))
           f == round.protocols[idx].cap_f
           d_hat == homomorphic_add(idx,
                      homomorphic_mul(idx, round.k_ciphertexts[idx],
                                      ctx.key_share.secret_share),
                      Ciphertext(idx, 0 - beta_hat))
           f_hat == Ciphertext(my_idx, beta_hat)
       IN [gamma |-> gamma,
           d |-> d,
           d_hat |-> d_hat,
           f |-> f,
           f_hat |-> f_hat,
           psi |-> AffGProof_random(ctx.gamma, beta, idx, my_idx,
                                    round.k_ciphertexts[idx], idx, aux),
           psi_hat |-> AffGProof_random(ctx.key_share.secret_share, beta_hat,
                                        idx, my_idx, round.k_ciphertexts[idx],
                                        idx, aux),
           psi_hat_prime |-> LogStarProof_random(ctx.gamma, my_idx, GENERATOR,
                                                 idx, aux)]])

\* The bound of the mask alone: 2^l'.
AlphaBound_of_mask == LP_BOUND

\* The bound asserted on alpha: |alpha| < 2^(max(2 l, l') + 1).
AlphaBound == (IF 2 * L_BOUND > LP_BOUND THEN 2 * L_BOUND ELSE LP_BOUND) + 1

assert_bound_usize(v, bound) == (0 - Pow2(bound)) < v /\ v < Pow2(bound)

\* Round2::verify_received without the check of psi.
Round2_verify_received_no_psi(round, from, msg) ==
  LET ctx == round.context
      my_idx == ctx.key_share.index
      aux == << ctx.shared_randomness, from >>
      big_x == ctx.key_share.public_shares[from]
  IN IF ~AffGProof_verify(msg.psi_hat, my_idx, from,
                          round.k_ciphertexts[my_idx],
                          msg.d_hat, msg.f_hat, big_x, my_idx, aux)
     THEN VerificationFail("Failed to verify AffGProof (psi_hat)")
     ELSE IF ~LogStarProof_verify(msg.psi_hat_prime, from,
                                  round.g_ciphertexts[from], GENERATOR,
                                  msg.gamma, my_idx, aux)
     THEN VerificationFail("Failed to verify LogStarProof")
     ELSE LET alpha == decrypt_signed(msg.d, my_idx)
          IN IF ~assert_bound_usize(alpha, AlphaBound)
             THEN [ok |-> FALSE, error |-> "panic"]
             ELSE ReceiveOk(
                    [gamma |-> msg.gamma,
                     alpha |-> alpha,
                     alpha_hat |-> to_scalar(decrypt_signed(msg.d_hat, my_idx)),
                     cap_d |-> msg.d])

Round2_verify_received(round, from, msg) ==
  LET ctx == round.context
      my_idx == ctx.key_share.index
      aux == << ctx.shared_randomness, from >>
      big_x == ctx.key_share.public_shares[from]
  IN IF ~AffGProof_verify(msg.psi, my_idx, from, round.k_ciphertexts[my_idx],
                          msg.d, msg.f, msg.gamma, my_idx, aux)
     THEN VerificationFail("Failed to verify AffGProof (psi)")
     ELSE IF ~AffGProof_verify(msg.psi_hat, my_idx, from,
                               round.k_ciphertexts[my_idx],
                               msg.d_hat, msg.f_hat, big_x, my_idx, aux)
     THEN VerificationFail("Failed to verify AffGProof (psi_hat)")
     ELSE IF ~LogStarProof_verify(msg.psi_hat_prime, from,
                                  round.g_ciphertexts[from], GENERATOR,
                                  msg.gamma, my_idx, aux)
     THEN VerificationFail("Failed to verify LogStarProof")
     ELSE LET alpha == decrypt_signed(msg.d, my_idx)
          IN IF ~assert_bound_usize(alpha, AlphaBound)
             THEN [ok |-> FALSE, error |-> "panic"]
             ELSE ReceiveOk(
                    [gamma |-> msg.gamma,
                     alpha |-> alpha,
                     alpha_hat |-> to_scalar(decrypt_signed(msg.d_hat, my_idx)),
                     cap_d |-> msg.d])

\* Round2::finalize with the beta-hat masks left out of the product share.
Round2_finalize_no_beta_hat(round, rng, payloads) ==
  LET ctx == round.context
      range == DOMAIN payloads
      gamma == PointAdd(PointSum([j \in range |-> payloads[j].gamma], range),
                        mul_by_generator(ctx.gamma))
      alpha_hat_sum == ScalarSum([j \in range |-> payloads[j].alpha_hat], range)
  IN AnotherRound(
       [context |-> ctx,
        delta |-> ctx.gamma * ctx.ephemeral_scalar_share
                  + SumOver([j \in range |-> payloads[j].alpha], range)
                  + SumOver([j \in range |-> round.protocols[j].beta], range),
        product_share |->
          ScalarAdd(ScalarMul(ctx.key_share.secret_share,
                              ctx.ephemeral_scalar_share),
                    alpha_hat_sum),
        big_delta |-> PointMul(gamma, ctx.ephemeral_scalar_share),
        big_gamma |-> gamma,
        k_ciphertexts |-> round.k_ciphertexts,
        g_ciphertexts |-> round.g_ciphertexts,
        cap_ds |-> [j \in range |-> payloads[j].cap_d],
        round2_protocols |-> round.protocols])

\* Round2::finalize that leaves the masks beta out of delta.
Round2_finalize_no_beta(round, rng, payloads) ==
  LET ctx == round.context
      range == DOMAIN payloads
      gamma == PointAdd(PointSum([j \in range |-> payloads[j].gamma], range),
                        mul_by_generator(ctx.gamma))
      big_delta == PointMul(gamma, ctx.ephemeral_scalar_share)
      delta == ctx.gamma * ctx.ephemeral_scalar_share
               + SumOver([j \in range |-> payloads[j].alpha], range)
      alpha_hat_sum == ScalarSum([j \in range |-> payloads[j].alpha_hat], range)
      beta_hat_sum == SumOver(round.betas_hat, range)
      product_share ==
        ScalarAdd(ScalarAdd(ScalarMul(ctx.key_share.secret_share,
                                      ctx.ephemeral_scalar_share),
                            alpha_hat_sum),
                  to_scalar(beta_hat_sum))
  IN AnotherRound(
       [context |-> ctx,
        delta |-> delta,
        product_share |-> product_share,
        big_delta |-> big_delta,
        big_gamma |-> gamma,
        k_ciphertexts |-> round.k_ciphertexts,
        g_ciphertexts |-> round.g_ciphertexts,
        cap_ds |-> [j \in range |-> payloads[j].cap_d],
        round2_protocols |-> round.protocols])

Round2_finalize(round, rng, payloads) ==
  LET ctx == round.context
      range == DOMAIN payloads
      gamma == PointAdd(PointSum([j \in range |-> payloads[j].gamma], range),
                        mul_by_generator(ctx.gamma))
      big_delta == PointMul(gamma, ctx.ephemeral_scalar_share)
      delta == ctx.gamma * ctx.ephemeral_scalar_share
               + SumOver([j \in range |-> payloads[j].alpha], range)
               + SumOver([j \in range |-> round.protocols[j].beta], range)
      alpha_hat_sum == ScalarSum([j \in range |-> payloads[j].alpha_hat], range)
      beta_hat_sum == SumOver(round.betas_hat, range)
      product_share ==
        ScalarAdd(ScalarAdd(ScalarMul(ctx.key_share.secret_share,
                                      ctx.ephemeral_scalar_share),
                            alpha_hat_sum),
                  to_scalar(beta_hat_sum))
  IN AnotherRound(
       [context |-> ctx,
        delta |-> delta,
        product_share |-> product_share,
        big_delta |-> big_delta,
        big_gamma |-> gamma,
        k_ciphertexts |-> round.k_ciphertexts,
        g_ciphertexts |-> round.g_ciphertexts,
        cap_ds |-> [j \in range |-> payloads[j].cap_d],
        round2_protocols |-> round.protocols])

Round3_to_send(round, rng) ==
  LET ctx == round.context
      my_idx == ctx.key_share.index
      aux == << ctx.shared_randomness, my_idx >>
  IN Direct([idx \in HoleRange(NumParties, my_idx) |->
       [delta |-> to_scalar(round.delta),
        big_delta |-> round.big_delta,
        psi_hat_pprime |-> LogStarProof_random(ctx.ephemeral_scalar_share, my_idx,
                                               round.big_gamma, idx, aux)]])

Round3_verify_received(round, from, msg) ==
  LET ctx == round.context
      my_idx == ctx.key_share.index
      aux == << ctx.shared_randomness, from >>
  IN IF ~LogStarProof_verify(msg.psi_hat_pprime, from, round.k_ciphertexts[from],
                             round.big_gamma, msg.big_delta, my_idx, aux)
     THEN VerificationFail("Failed to verify Log-Star proof")
     ELSE ReceiveOk([delta |-> msg.delta, big_delta |-> msg.big_delta])

\* Round3::finalize with the nonce Gamma * delta (the inverse left out).
Round3_finalize_no_invert(round, rng, payloads) ==
  LET range == DOMAIN payloads
      delta == ScalarAdd(ScalarSum([j \in range |-> payloads[j].delta], range),
                         to_scalar(round.delta))
      big_delta == PointAdd(
                     PointSum([j \in range |-> payloads[j].big_delta], range),
                     round.big_delta)
  IN IF mul_by_generator(delta) = big_delta
     THEN IF invert(delta) = -1
          THEN Panic("unwrap of the inverse of a zero delta")
          ELSE Result([nonce |-> PointMul(round.big_gamma, delta),
                       ephemeral_scalar_share |->
                         round.context.ephemeral_scalar_share,
                       product_share |-> round.product_share])
     ELSE FinalizeError("Invalid Delta")

\* Round3::finalize with the nonce taken from the party's own Gamma_i.
Round3_finalize_own_gamma(round, rng, payloads) ==
  LET range == DOMAIN payloads
      delta == ScalarAdd(ScalarSum([j \in range |-> payloads[j].delta], range),
                         to_scalar(round.delta))
      big_delta == PointAdd(
                     PointSum([j \in range |-> payloads[j].big_delta], range),
                     round.big_delta)
  IN IF mul_by_generator(delta) = big_delta
     THEN IF invert(delta) = -1
          THEN Panic("unwrap of the inverse of a zero delta")
          ELSE Result([nonce |-> PointMul(mul_by_generator(round.context.gamma),
                                          invert(delta)),
                       ephemeral_scalar_share |->
                         round.context.ephemeral_scalar_share,
                       product_share |-> round.product_share])
     ELSE FinalizeError("Invalid Delta")

\* Round3::finalize without the comparison of delta * G with Delta.
Round3_finalize_unchecked(round, rng, payloads) ==
  LET range == DOMAIN payloads
      delta == ScalarAdd(ScalarSum([j \in range |-> payloads[j].delta], range),
                         to_scalar(round.delta))
  IN IF invert(delta) = -1
     THEN Panic("unwrap of the inverse of a zero delta")
     ELSE Result([nonce |-> PointMul(round.big_gamma, invert(delta)),
                  ephemeral_scalar_share |-> round.context.ephemeral_scalar_share,
                  product_share |-> round.product_share])

Round3_finalize(round, rng, payloads) ==
  LET range == DOMAIN payloads
      delta == ScalarAdd(ScalarSum([j \in range |-> payloads[j].delta], range),
                         to_scalar(round.delta))
      big_delta == PointAdd(
                     PointSum([j \in range |-> payloads[j].big_delta], range),
                     round.big_delta)
  IN IF mul_by_generator(delta) = big_delta
     THEN IF invert(delta) = -1
          THEN Panic("unwrap of the inverse of a zero delta")
          ELSE Result([nonce |-> PointMul(round.big_gamma, invert(delta)),
                       ephemeral_scalar_share |->
                         round.context.ephemeral_scalar_share,
                       product_share |-> round.product_share])
     ELSE LET ctx == round.context
              my_idx == ctx.key_share.index
              aux == << ctx.shared_randomness, my_idx >>
              cap_h == Ciphertext(my_idx, ctx.ephemeral_scalar_share * ctx.gamma)
              p_mul == MulProof_random(ctx.ephemeral_scalar_share, my_idx,
                                       round.g_ciphertexts[my_idx], aux)
              ciphertext ==
                Ciphertext(my_idx,
                  cap_h.pt
                  + SumOver([j \in range |-> round.cap_ds[j].pt], range)
                  + SumOver([j \in range |-> round.round2_protocols[j].cap_f.pt],
                            range))
          IN IF ~MulProof_verify(p_mul, my_idx, round.k_ciphertexts[my_idx],
                                 round.g_ciphertexts[my_idx], cap_h, aux)
             THEN Panic("assert of the Mul proof")
             ELSE IF \E j \in range :
                       ~DecProof_verify(
                          DecProof_random(round.delta, my_idx, j, aux),
                          my_idx, to_scalar(round.delta), ciphertext, j, aux)
             THEN Panic("assert of the Dec proof")
             ELSE FinalizeError("Invalid Delta")

\* ------------------------------------------------------------ signing round

\* signing::Round1::new from the presigning data, the message and the key.
SigningRound_new(context) ==
  LET r == x_coordinate(context.presigning.nonce)
  IN [context |-> context,
      r |-> r,
      s_part |-> ScalarAdd(
                   ScalarMul(context.presigning.ephemeral_scalar_share,
                             context.message),
                   ScalarMul(r, context.presigning.product_share))]

SigningRound_to_send(round) == Broadcast([s_part |-> round.s_part])

SigningRound_verify_received(round, from, msg) == ReceiveOk(msg.s_part)

\* RecoverableSignature from (r, s): s in the low half, the recovery byte the
\* parity of the nonce point, flipped when s is negated.
RecoverableSignature_from_scalars(r, s, nonce) ==
  [r |-> r,
   s |-> normalize(s),
   recovery |-> IF is_high(s) THEN 1 - y_is_odd(nonce) ELSE y_is_odd(nonce)]

SigningRound_finalize(round, payloads) ==
  LET range == DOMAIN payloads
      s == ScalarAdd(ScalarSum(payloads, range), round.s_part)
  IN IF round.r = 0 \/ s = 0
     THEN FinalizeError("Invalid signature")
     ELSE Result(RecoverableSignature_from_scalars(
                   round.r, s, round.context.presigning.nonce))

\* VerifyingKey::verify_prehash of the ECC backend: ECDSA verification of the
\* prehash `message` under the public key point `vkey`.
verify_prehash(vkey, message, sig) ==
  /\ vkey # IDENTITY
  /\ sig.r \in 1 .. (ORDER - 1)
  /\ sig.s \in 1 .. (ORDER - 1)
  /\ ~is_high(sig.s)
  /\ LET s_inv == invert(sig.s)
         u1 == ScalarMul(message, s_inv)
         u2 == ScalarMul(sig.r, s_inv)
         cap_r == PointAdd(mul_by_generator(u1), PointMul(vkey, u2))
     IN cap_r # IDENTITY /\ x_coordinate(cap_r) = sig.r

\* ------------------------------------------------------- interactive signing

\* Number of rounds of interactive signing, and the round numbers.
StagesNum == 5

\* Round3::finalize_to_next_round of interactive signing: the presigning result
\* becomes the context of the signing round.
InteractiveRound3_finalize(round, message, rng, payloads) ==
  LET fin == Round3_finalize(round, rng, payloads)
  IN IF fin.outcome = "Result"
     THEN AnotherRound(SigningRound_new(
            [message |-> message,
             presigning |-> fin.result,
             verifying_key |->
               verifying_key_as_point(round.context.key_share)]))
     ELSE fin

\* --------------------------------------------------------------- wire format

EncScalar(v) == << "Scalar", v >>
EncPoint(p) == << "Point", p >>
EncCiphertext(c) == << "Ciphertext", c.pk, c.pt >>

IsScalar(b) == Len(b) = 2 /\ b[1] = "Scalar" /\ b[2] \in Scalars
IsPoint(b) == Len(b) = 2 /\ b[1] = "Point" /\ b[2] \in Points
IsCiphertext(b) == Len(b) = 3 /\ b[1] = "Ciphertext"
IsProof(b, kind, len) == Len(b) = len /\ b[1] = kind

DecCiphertext(b) == Ciphertext(b[2], b[3])

\* serialize_message of the message type of round `num`.
serialize_message(num, m) ==
  CASE num = 1 -> << EncCiphertext(m.k_ciphertext), EncCiphertext(m.g_ciphertext) >>
    [] num = 2 -> << m.proof >>
    [] num = 3 -> << EncPoint(m.gamma), EncCiphertext(m.d), EncCiphertext(m.d_hat),
                     EncCiphertext(m.f), EncCiphertext(m.f_hat),
                     m.psi, m.psi_hat, m.psi_hat_prime >>
    [] num = 4 -> << EncScalar(m.delta), EncPoint(m.big_delta), m.psi_hat_pprime >>
    [] OTHER -> << EncScalar(m.s_part) >>

DeserializationError == [ok |-> FALSE]

\* deserialize_message into the message type of round `num`.
deserialize_message(num, b) ==
  CASE num = 1 ->
         IF Len(b) = 2 /\ IsCiphertext(b[1]) /\ IsCiphertext(b[2])
         THEN [ok |-> TRUE,
               message |-> [k_ciphertext |-> DecCiphertext(b[1]),
                            g_ciphertext |-> DecCiphertext(b[2])]]
         ELSE DeserializationError
    [] num = 2 ->
         IF Len(b) = 1 /\ IsProof(b[1], "EncProof", 6)
         THEN [ok |-> TRUE, message |-> [proof |-> b[1]]]
         ELSE DeserializationError
    [] num = 3 ->
         IF /\ Len(b) = 8
            /\ IsPoint(b[1])
            /\ \A n \in 2 .. 5 : IsCiphertext(b[n])
            /\ IsProof(b[6], "AffGProof", 3)
            /\ IsProof(b[7], "AffGProof", 3)
            /\ IsProof(b[8], "LogStarProof", 8)
         THEN [ok |-> TRUE,
               message |-> [gamma |-> b[1][2],
                            d |-> DecCiphertext(b[2]),
                            d_hat |-> DecCiphertext(b[3]),
                            f |-> DecCiphertext(b[4]),
                            f_hat |-> DecCiphertext(b[5]),
                            psi |-> b[6],
                            psi_hat |-> b[7],
                            psi_hat_prime |-> b[8]]]
         ELSE DeserializationError
    [] num = 4 ->
         IF /\ Len(b) = 3
            /\ IsScalar(b[1])
            /\ IsPoint(b[2])
            /\ IsProof(b[3], "LogStarProof", 8)
         THEN [ok |-> TRUE,
               message |-> [delta |-> b[1][2],
                            big_delta |-> b[2][2],
                            psi_hat_pprime |-> b[3]]]
         ELSE DeserializationError
    [] OTHER ->
         IF Len(b) = 1 /\ IsScalar(b[1])
         THEN [ok |-> TRUE, message |-> [s_part |-> b[1][2]]]
         ELSE DeserializationError

\* The round number framed in front of the body, as a pair.
\* serialize_with_round that keeps two bits of the round number.
serialize_with_round_two_bits(round, message) == << round % 4, message >>

serialize_with_round(round, message) == << round, message >>

deserialize_with_round(message_bytes) ==
  IF Len(message_bytes) = 2 /\ message_bytes[1] \in 0 .. 255
  THEN [ok |-> TRUE, round |-> message_bytes[1], message |-> message_bytes[2]]
  ELSE DeserializationError

\* ------------------------------------------------------------------ errors

Ok == [fault |-> "None", party |-> -1, error |-> "None"]
MyFault(what) == [fault |-> "MyFault", party |-> -1, error |-> what]
TheirFault(party, what) == [fault |-> "TheirFault", party |-> party, error |-> what]
ErrorRound == [fault |-> "ErrorRound", party |-> -1, error |-> "ErrorRound"]
Panicked == [fault |-> "Panic", party |-> -1, error |-> "panic"]

\* ------------------------------------------- rounds by number (SessionState)

round_to_send(num, round, rng) ==
  CASE num = 1 -> Round1Part1_to_send(round)
    [] num = 2 -> Round1Part2_to_send(round, rng)
    [] num = 3 -> Round2_to_send(round, rng)
    [] num = 4 -> Round3_to_send(round, rng)
    [] OTHER -> SigningRound_to_send(round)

round_verify_received(num, round, from, msg) ==
  CASE num = 1 -> Round1Part1_verify_received(round, from, msg)
    [] num = 2 -> Round1Part2_verify_received(round, from, msg)
    [] num = 3 -> Round2_verify_received(round, from, msg)
    [] num = 4 -> Round3_verify_received(round, from, msg)
    [] OTHER -> SigningRound_verify_received(round, from, msg)

round_finalize(num, round, message, rng, payloads) ==
  CASE num = 1 -> Round1Part1_finalize(round, rng, payloads)
    [] num = 2 -> Round1Part2_finalize(round, rng, payloads)
    [] num = 3 -> Round2_finalize(round, rng, payloads)
    [] num = 4 -> InteractiveRound3_finalize(round, message, rng, payloads)
    [] OTHER -> SigningRound_finalize(round, payloads)

\* ------------------------------------------------------------------- Stage
\* A stage is a round with its accumulator: accum is << >> (None, the sending
\* state) or << slots >> with slots[j] = << >> (empty) or << payload >>.

Stage_new(num, round) == [num |-> num, round |-> round, accum |-> << >>]

HoleVecAccum_new(num_parties, index) ==
  [j \in HoleRange(num_parties, index) |-> << >>]

can_finalize(slots) == \A j \in DOMAIN slots : slots[j] # << >>

HoleVecAccum_finalize(slots) == [j \in DOMAIN slots |-> slots[j][1]]

\* Stage::get_messages without the check of the sending state: it emits again
\* and opens a new accumulator.
Stage_get_messages_again(stage, rng, num_parties, index) ==
  LET typed == round_to_send(stage.num, stage.round, rng)
      serialized ==
        IF typed.kind = "Broadcast"
        THEN Broadcast(serialize_message(stage.num, typed.message))
        ELSE Direct([idx \in DOMAIN typed.messages |->
                       serialize_message(stage.num, typed.messages[idx])])
  IN [res |-> Ok,
      stage |-> [stage EXCEPT !.accum = << HoleVecAccum_new(num_parties, index) >>],
      to_send |-> << serialized >>]

\* Stage::get_messages: the round's messages, serialized; opens the accumulator.
Stage_get_messages(stage, rng, num_parties, index) ==
  IF stage.accum # << >>
  THEN [res |-> MyFault("The session is not in a sending state"),
        stage |-> stage, to_send |-> << >>]
  ELSE LET typed == round_to_send(stage.num, stage.round, rng)
           serialized ==
             IF typed.kind = "Broadcast"
             THEN Broadcast(serialize_message(stage.num, typed.message))
             ELSE Direct([idx \in DOMAIN typed.messages |->
                            serialize_message(stage.num, typed.messages[idx])])
       IN [res |-> Ok,
           stage |-> [stage EXCEPT !.accum = << HoleVecAccum_new(num_parties, index) >>],
           to_send |-> << serialized >>]

\* Stage::receive without the check for a duplicate: a later message takes
\* the slot over.
Stage_receive_overwrite(stage, from, message_bytes) ==
  IF stage.accum = << >>
  THEN [res |-> MyFault("The session is in a sending stage, cannot receive messages"),
        stage |-> stage]
  ELSE LET accum == stage.accum[1]
           message == deserialize_message(stage.num, message_bytes)
       IN IF ~message.ok
          THEN [res |-> TheirFault(from, "DeserializationError"), stage |-> stage]
          ELSE IF from \notin DOMAIN accum
          THEN [res |-> MyFault("InvalidId"), stage |-> stage]
          ELSE LET payload == round_verify_received(stage.num, stage.round, from,
                                                    message.message)
               IN IF ~payload.ok
                  THEN [res |-> IF payload.error = "panic" THEN Panicked
                                ELSE TheirFault(from, payload.error),
                        stage |-> stage]
                  ELSE [res |-> Ok,
                        stage |-> [stage EXCEPT !.accum =
                          << [accum EXCEPT ![from] = << payload.payload >>] >>]]

\* Stage::receive that stores a payload in the first empty slot, whoever
\* sent it.
Stage_receive_first_empty(stage, from, message_bytes) ==
  IF stage.accum = << >>
  THEN [res |-> MyFault("The session is in a sending stage, cannot receive messages"),
        stage |-> stage]
  ELSE LET accum == stage.accum[1]
           message == deserialize_message(stage.num, message_bytes)
           empty == {j \in DOMAIN accum : accum[j] = << >>}
       IN IF ~message.ok
          THEN [res |-> TheirFault(from, "DeserializationError"), stage |-> stage]
          ELSE IF from \notin DOMAIN accum
          THEN [res |-> MyFault("InvalidId"), stage |-> stage]
          ELSE IF empty = {}
          THEN [res |-> TheirFault(from, "DuplicateMessage"), stage |-> stage]
          ELSE LET payload == round_verify_received(stage.num, stage.round, from,
                                                    message.message)
                   slot == CHOOSE j \in empty : \A other \in empty : j <= other
               IN IF ~payload.ok
                  THEN [res |-> IF payload.error = "panic" THEN Panicked
                                ELSE TheirFault(from, payload.error),
                        stage |-> stage]
                  ELSE [res |-> Ok,
                        stage |-> [stage EXCEPT !.accum =
                          << [accum EXCEPT ![slot] = << payload.payload >>] >>]]

\* Stage::receive that reports a failed verification as an error of its own.
Stage_receive_verify_my_fault(stage, from, message_bytes) ==
  IF stage.accum = << >>
  THEN [res |-> MyFault("The session is in a sending stage, cannot receive messages"),
        stage |-> stage]
  ELSE LET accum == stage.accum[1]
           message == deserialize_message(stage.num, message_bytes)
       IN IF ~message.ok
          THEN [res |-> TheirFault(from, "DeserializationError"), stage |-> stage]
          ELSE IF from \notin DOMAIN accum
          THEN [res |-> MyFault("InvalidId"), stage |-> stage]
          ELSE IF accum[from] # << >>
          THEN [res |-> TheirFault(from, "DuplicateMessage"), stage |-> stage]
          ELSE LET payload == round_verify_received(stage.num, stage.round, from,
                                                    message.message)
               IN IF ~payload.ok
                  THEN [res |-> IF payload.error = "panic" THEN Panicked
                                ELSE MyFault(payload.error),
                        stage |-> stage]
                  ELSE [res |-> Ok,
                        stage |-> [stage EXCEPT !.accum =
                          << [accum EXCEPT ![from] = << payload.payload >>] >>]]

\* Stage::receive that fills the slot before it verifies the message.
Stage_receive_store_first(stage, from, message_bytes) ==
  IF stage.accum = << >>
  THEN [res |-> MyFault("The session is in a sending stage, cannot receive messages"),
        stage |-> stage]
  ELSE LET accum == stage.accum[1]
           message == deserialize_message(stage.num, message_bytes)
       IN IF ~message.ok
          THEN [res |-> TheirFault(from, "DeserializationError"), stage |-> stage]
          ELSE IF from \notin DOMAIN accum
          THEN [res |-> MyFault("InvalidId"), stage |-> stage]
          ELSE IF accum[from] # << >>
          THEN [res |-> TheirFault(from, "DuplicateMessage"), stage |-> stage]
          ELSE LET payload == round_verify_received(stage.num, stage.round, from,
                                              message.message)
               IN IF ~payload.ok
                  THEN [res |-> IF payload.error = "panic" THEN Panicked
                                ELSE TheirFault(from, payload.error),
                        stage |-> [stage EXCEPT !.accum =
                          << [accum EXCEPT ![from] = << message.message >>] >>]]
                  ELSE [res |-> Ok,
                        stage |-> [stage EXCEPT !.accum =
                          << [accum EXCEPT ![from] = << payload.payload >>] >>]]

\* Stage::receive: deserialize, find the slot, reject a duplicate, verify, store.
Stage_receive(stage, from, message_bytes) ==
  IF stage.accum = << >>
  THEN [res |-> MyFault("The session is in a sending stage, cannot receive messages"),
        stage |-> stage]
  ELSE LET accum == stage.accum[1]
           message == deserialize_message(stage.num, message_bytes)
       IN IF ~message.ok
          THEN [res |-> TheirFault(from, "DeserializationError"), stage |-> stage]
          ELSE IF from \notin DOMAIN accum
          THEN [res |-> MyFault("InvalidId"), stage |-> stage]
          ELSE IF accum[from] # << >>
          THEN [res |-> TheirFault(from, "DuplicateMessage"), stage |-> stage]
          ELSE LET payload == round_verify_received(stage.num, stage.round, from,
                                              message.message)
               IN IF ~payload.ok
                  THEN [res |-> IF payload.error = "panic" THEN Panicked
                                ELSE TheirFault(from, payload.error),
                        stage |-> stage]
                  ELSE [res |-> Ok,
                        stage |-> [stage EXCEPT !.accum =
                          << [accum EXCEPT ![from] = << payload.payload >>] >>]]

\* Stage::is_finished_receiving that is content with one filled slot.
Stage_is_finished_receiving_any(stage) ==
  IF stage.accum = << >>
  THEN [res |-> MyFault("Not in a receiving state"), value |-> FALSE]
  ELSE [res |-> Ok,
        value |-> \E j \in DOMAIN stage.accum[1] : stage.accum[1][j] # << >>]

Stage_is_finished_receiving(stage) ==
  IF stage.accum = << >>
  THEN [res |-> MyFault("Not in a receiving state"), value |-> FALSE]
  ELSE [res |-> Ok, value |-> can_finalize(stage.accum[1])]

\* Stage::finalize: the round's finalize on the full accumulator.
Stage_finalize(stage, message, rng) ==
  IF stage.accum = << >>
  THEN [res |-> MyFault("The session is in a sending stage, cannot receive messages"),
        next |-> << >>]
  ELSE IF can_finalize(stage.accum[1])
  THEN LET fin == round_finalize(stage.num, stage.round, message, rng,
                                 HoleVecAccum_finalize(stage.accum[1]))
       IN CASE fin.outcome = "Err" -> [res |-> ErrorRound, next |-> << >>]
            [] fin.outcome = "Panic" -> [res |-> Panicked, next |-> << >>]
            [] OTHER -> [res |-> Ok, next |-> << fin >>]
  ELSE [res |-> MyFault("Messages from some of the parties are missing"),
        next |-> << >>]

\* ------------------------------------------------------------ SessionState
\* The state of an interactive-signing session: the current stage, or the
\* result once the last round is finalized.

State_new(rng, shared_randomness, key_share, message) ==
  [num |-> 1,
   stage |-> << Stage_new(1, Round1Part1_new(rng, shared_randomness, key_share)) >>,
   message |-> message,
   result |-> << >>]

current_stage_num(state) == state.num
stages_num(state) == StagesNum
is_final_stage(state) == state.stage = << >>

State_get_messages(state, rng, num_parties, index) ==
  IF is_final_stage(state)
  THEN [res |-> MyFault("The session is finished"), state |-> state, to_send |-> << >>]
  ELSE LET got == Stage_get_messages(state.stage[1], rng, num_parties, index)
       IN [res |-> got.res,
           state |-> [state EXCEPT !.stage = << got.stage >>],
           to_send |-> got.to_send]

receive_current_stage(state, from, message_bytes) ==
  IF is_final_stage(state)
  THEN [res |-> MyFault("The session is finished"), state |-> state]
  ELSE LET got == Stage_receive(state.stage[1], from, message_bytes)
       IN [res |-> got.res, state |-> [state EXCEPT !.stage = << got.stage >>]]

State_is_finished_receiving(state) ==
  IF is_final_stage(state)
  THEN [res |-> MyFault("The session is finished"), value |-> FALSE]
  ELSE Stage_is_finished_receiving(state.stage[1])

\* finalize_stage that starts the next round under the number of the one it
\* ends.
State_finalize_stage_same_number(state, rng) ==
  IF is_final_stage(state)
  THEN [res |-> MyFault("The session is finished"), state |-> state]
  ELSE LET fin == Stage_finalize(state.stage[1], state.message, rng)
       IN IF fin.res # Ok
          THEN [res |-> fin.res, state |-> state]
          ELSE IF fin.next[1].outcome = "AnotherRound"
          THEN [res |-> Ok,
                state |-> [state EXCEPT
                  !.stage = << Stage_new(state.num + 1, fin.next[1].round) >>]]
          ELSE [res |-> Ok,
                state |-> [state EXCEPT
                  !.stage = << >>,
                  !.result = << fin.next[1].result >>]]

State_finalize_stage(state, rng) ==
  IF is_final_stage(state)
  THEN [res |-> MyFault("The session is finished"), state |-> state]
  ELSE LET fin == Stage_finalize(state.stage[1], state.message, rng)
       IN IF fin.res # Ok
          THEN [res |-> fin.res, state |-> state]
          ELSE IF fin.next[1].outcome = "AnotherRound"
          THEN [res |-> Ok,
                state |-> [state EXCEPT
                  !.num = state.num + 1,
                  !.stage = << Stage_new(state.num + 1, fin.next[1].round) >>]]
          ELSE [res |-> Ok,
                state |-> [state EXCEPT
                  !.stage = << >>,
                  !.result = << fin.next[1].result >>]]

\* result that does not look at whether the session has finished.
State_result_unfinished(state) ==
  [res |-> Ok, value |-> state.result]

State_result(state) ==
  IF state.result = << >>
  THEN [res |-> MyFault("The session is not finished"), value |-> << >>]
  ELSE [res |-> Ok, value |-> state.result]

\* The rounds interactive signing declares: number, successor and kind.
InteractiveSigningRounds ==
  << [ROUND_NUM |-> 1, NEXT_ROUND_NUM |-> << 2 >>, Type |-> "ToNextRound"],
     [ROUND_NUM |-> 2, NEXT_ROUND_NUM |-> << 3 >>, Type |-> "ToNextRound"],
     [ROUND_NUM |-> 3, NEXT_ROUND_NUM |-> << 4 >>, Type |-> "ToNextRound"],
     [ROUND_NUM |-> 4, NEXT_ROUND_NUM |-> << >>, Type |-> "ToResult"] >>

\* ----------------------------------------------------------------- Session

Session_new(rng, shared_randomness, num_parties, index, key_share, message) ==
  [index |-> index,
   num_parties |-> num_parties,
   next_stage_messages |-> << >>,
   state |-> State_new(rng, shared_randomness, key_share, message)]

\* Session::get_messages that frames with the number of the round to come.
Session_get_messages_next_tag(session, rng) ==
  LET got == State_get_messages(session.state, rng, session.num_parties,
                                session.index)
      stage_num == current_stage_num(got.state) + 1
  IN IF got.res # Ok
     THEN [res |-> got.res, session |-> session, to_send |-> << >>]
     ELSE [res |-> Ok,
           session |-> [session EXCEPT !.state = got.state],
           to_send |->
             << IF got.to_send[1].kind = "Broadcast"
                THEN Broadcast(serialize_with_round(stage_num,
                                                    got.to_send[1].message))
                ELSE Direct([idx \in DOMAIN got.to_send[1].messages |->
                       serialize_with_round(stage_num,
                                            got.to_send[1].messages[idx])]) >>]

\* Session::get_messages: the stage's messages, each framed with the round number.
Session_get_messages(session, rng) ==
  LET got == State_get_messages(session.state, rng, session.num_parties,
                                session.index)
      stage_num == current_stage_num(got.state)
  IN IF got.res # Ok
     THEN [res |-> got.res, session |-> session, to_send |-> << >>]
     ELSE [res |-> Ok,
           session |-> [session EXCEPT !.state = got.state],
           to_send |->
             << IF got.to_send[1].kind = "Broadcast"
                THEN Broadcast(serialize_with_round(stage_num,
                                                    got.to_send[1].message))
                ELSE Direct([idx \in DOMAIN got.to_send[1].messages |->
                       serialize_with_round(stage_num,
                                            got.to_send[1].messages[idx])]) >>]

\* Session::receive without the one-ahead cache: only the current round's
\* messages are taken.
Session_receive_no_cache(session, from, message_bytes) ==
  LET stage_num == current_stage_num(session.state)
      framed == deserialize_with_round(message_bytes)
  IN IF ~framed.ok
     THEN [res |-> TheirFault(from, "DeserializationError"), session |-> session]
     ELSE IF framed.round = stage_num
     THEN LET got == receive_current_stage(session.state, from, framed.message)
          IN [res |-> got.res, session |-> [session EXCEPT !.state = got.state]]
     ELSE [res |-> TheirFault(from, "OutOfOrderMessage"), session |-> session]

\* Session::receive that leaves out the bound on the round number.
Session_receive_no_max(session, from, message_bytes) ==
  LET stage_num == current_stage_num(session.state)
      framed == deserialize_with_round(message_bytes)
  IN IF ~framed.ok
     THEN [res |-> TheirFault(from, "DeserializationError"), session |-> session]
     ELSE IF framed.round = stage_num + 1
     THEN [res |-> Ok,
           session |-> [session EXCEPT !.next_stage_messages =
                          Append(@, << from, framed.message >>)]]
     ELSE IF framed.round = stage_num
     THEN LET got == receive_current_stage(session.state, from, framed.message)
          IN [res |-> got.res, session |-> [session EXCEPT !.state = got.state]]
     ELSE [res |-> TheirFault(from, "OutOfOrderMessage"), session |-> session]

\* Session::receive that deserializes a message of the next round before it
\* caches it.
Session_receive_checked(session, from, message_bytes) ==
  LET stage_num == current_stage_num(session.state)
      max_stages == stages_num(session.state)
      framed == deserialize_with_round(message_bytes)
  IN IF ~framed.ok
     THEN [res |-> TheirFault(from, "DeserializationError"), session |-> session]
     ELSE IF framed.round = stage_num + 1 /\ framed.round <= max_stages
     THEN IF deserialize_message(framed.round, framed.message).ok
          THEN [res |-> Ok,
                session |-> [session EXCEPT !.next_stage_messages =
                               Append(@, << from, framed.message >>)]]
          ELSE [res |-> TheirFault(from, "DeserializationError"),
                session |-> session]
     ELSE IF framed.round = stage_num
     THEN LET got == receive_current_stage(session.state, from, framed.message)
          IN [res |-> got.res, session |-> [session EXCEPT !.state = got.state]]
     ELSE [res |-> TheirFault(from, "OutOfOrderMessage"), session |-> session]

\* Session::receive that puts a message of the next round in the cache twice.
Session_receive_cache_twice(session, from, message_bytes) ==
  LET stage_num == current_stage_num(session.state)
      max_stages == stages_num(session.state)
      framed == deserialize_with_round(message_bytes)
  IN IF ~framed.ok
     THEN [res |-> TheirFault(from, "DeserializationError"), session |-> session]
     ELSE IF framed.round = stage_num + 1 /\ framed.round <= max_stages
     THEN [res |-> Ok,
           session |-> [session EXCEPT !.next_stage_messages =
                          Append(Append(@, << from, framed.message >>),
                                 << from, framed.message >>)]]
     ELSE IF framed.round = stage_num
     THEN LET got == receive_current_stage(session.state, from, framed.message)
          IN [res |-> got.res, session |-> [session EXCEPT !.state = got.state]]
     ELSE [res |-> TheirFault(from, "OutOfOrderMessage"), session |-> session]

\* Session::receive: cache a message of the next round, apply one of the
\* current round, reject any other.
Session_receive(session, from, message_bytes) ==
  LET stage_num == current_stage_num(session.state)
      max_stages == stages_num(session.state)
      framed == deserialize_with_round(message_bytes)
  IN IF ~framed.ok
     THEN [res |-> TheirFault(from, "DeserializationError"), session |-> session]
     ELSE IF framed.round = stage_num + 1 /\ framed.round <= max_stages
     THEN [res |-> Ok,
           session |-> [session EXCEPT !.next_stage_messages =
                          Append(@, << from, framed.message >>)]]
     ELSE IF framed.round = stage_num
     THEN LET got == receive_current_stage(session.state, from, framed.message)
          IN [res |-> got.res, session |-> [session EXCEPT !.state = got.state]]
     ELSE [res |-> TheirFault(from, "OutOfOrderMessage"), session |-> session]

\* Session::receive_cached_message that keeps the entry when applying it fails.
Session_receive_cached_message_keep(session) ==
  IF session.next_stage_messages = << >>
  THEN [res |-> MyFault("No more cached messages left"), session |-> session]
  ELSE LET n == Len(session.next_stage_messages)
           last == session.next_stage_messages[n]
           popped == [session EXCEPT !.next_stage_messages = SubSeq(@, 1, n - 1)]
           got == receive_current_stage(popped.state, last[1], last[2])
       IN IF got.res = Ok
          THEN [res |-> Ok, session |-> [popped EXCEPT !.state = got.state]]
          ELSE [res |-> got.res, session |-> session]

\* Session::receive_cached_message: pop the last cached message and apply it
\* to the current stage.
Session_receive_cached_message(session) ==
  IF session.next_stage_messages = << >>
  THEN [res |-> MyFault("No more cached messages left"), session |-> session]
  ELSE LET n == Len(session.next_stage_messages)
           last == session.next_stage_messages[n]
           popped == [session EXCEPT !.next_stage_messages = SubSeq(@, 1, n - 1)]
           got == receive_current_stage(popped.state, last[1], last[2])
       IN [res |-> got.res, session |-> [popped EXCEPT !.state = got.state]]

Session_is_finished_receiving(session) ==
  State_is_finished_receiving(session.state)

\* Session::finalize_stage that keeps the finalized stage.
Session_finalize_stage_stay(session, rng) ==
  LET fin == State_finalize_stage(session.state, rng)
  IN [res |-> fin.res, session |-> session]

\* Session::finalize_stage that hands its state over without the clone: a
\* finalize that fails has consumed the accumulator.
Session_finalize_stage_consume(session, rng) ==
  LET fin == State_finalize_stage(session.state, rng)
  IN IF fin.res = Ok \/ is_final_stage(session.state)
     THEN [res |-> fin.res, session |-> [session EXCEPT !.state = fin.state]]
     ELSE [res |-> fin.res,
           session |-> [session EXCEPT !.state.stage[1].accum = << >>]]

Session_finalize_stage(session, rng) ==
  LET fin == State_finalize_stage(session.state, rng)
  IN [res |-> fin.res, session |-> [session EXCEPT !.state = fin.state]]

Session_result(session) == State_result(session.state)

has_cached_messages(session) == session.next_stage_messages # << >>

\* ------------------------------------------------------- the running system
\* Every party runs the driver loop of the tests on its own session; the
\* dispatcher hands the messages over in any order.

VARIABLES
  input,   \* the seed of the random-number sources and the prehashed message
  sess,    \* sess[i]: the session of party i
  pc,      \* pc[i]: where party i stands in its driver loop
  fail,    \* fail[i]: the error party i stopped on (Ok while it has none)
  net,     \* the messages handed to the dispatcher and not yet delivered
  call,    \* the last call made on the session under test, with its result
  cached_tags  \* the round tags the cached bodies of that session came with

vars == << input, sess, pc, fail, net, call, cached_tags >>

\* No call made yet.
NoCall == [op |-> "none", from |-> -1, round |-> -1, stage |-> -1, res |-> Ok]

Seeds == 0 .. MaxSeed
Messages == 0 .. MaxMessage

Init ==
  \E seed \in Seeds, message \in Messages :
    /\ input = [seed |-> seed, message |-> message]
    /\ sess = [i \in Parties |->
         Session_new(PartyRng(seed, i), SharedRandomness, NumParties, i,
                     KeyShares(seed)[i], message)]
    /\ pc = [i \in Parties |-> "start"]
    /\ fail = [i \in Parties |-> Ok]
    /\ net = {}
    /\ call = NoCall
    /\ cached_tags = << >>

Rng(i) == PartyRng(input.seed, i)

\* The (from, to, bytes) triples the driver hands to the dispatcher.
Outgoing(i, to_send) ==
  IF to_send.kind = "Broadcast"
  THEN { [from |-> i, to |-> j, bytes |-> to_send.message] :
           j \in HoleRange(NumParties, i) }
  ELSE { [from |-> i, to |-> j, bytes |-> to_send.messages[j]] :
           j \in DOMAIN to_send.messages }

\* The driver unwraps every result: an error ends the party's task.
Step(i, got, next_pc) ==
  IF got.res = Ok
  THEN /\ sess' = [sess EXCEPT ![i] = got.session]
       /\ pc' = [pc EXCEPT ![i] = next_pc]
       /\ fail' = fail
  ELSE /\ sess' = sess
       /\ pc' = [pc EXCEPT ![i] = "panicked"]
       /\ fail' = [fail EXCEPT ![i] = got.res]

\* get_messages, then every message is sent.
Emit(i) ==
  /\ pc[i] = "start"
  /\ LET got == Session_get_messages(sess[i], Rng(i))
     IN /\ Step(i, got, IF has_cached_messages(sess[i]) THEN "cached" ELSE "recv")
        /\ net' = IF got.res = Ok THEN net \cup Outgoing(i, got.to_send[1]) ELSE net
  /\ UNCHANGED << input, call, cached_tags >>

\* while has_cached_messages: receive_cached_message.
ApplyCached(i) ==
  /\ pc[i] = "cached"
  /\ LET got == Session_receive_cached_message(sess[i])
     IN Step(i, got, IF has_cached_messages(got.session) THEN "cached" ELSE "recv")
  /\ UNCHANGED << input, net, call, cached_tags >>

\* while not is_finished_receiving: receive the next message of the channel.
Receive(i, m) ==
  /\ pc[i] = "recv"
  /\ ~Session_is_finished_receiving(sess[i]).value
  /\ m \in net
  /\ m.to = i
  /\ Step(i, Session_receive(sess[i], m.from, m.bytes), "recv")
  /\ net' = net \ {m}
  /\ UNCHANGED << input, call, cached_tags >>

\* finalize_stage once every message is in; the result after the last round.
Finalize(i) ==
  /\ pc[i] = "recv"
  /\ Session_is_finished_receiving(sess[i]).value
  /\ LET got == Session_finalize_stage(sess[i], Rng(i))
     IN Step(i, got, IF is_final_stage(got.session.state) THEN "done" ELSE "start")
  /\ UNCHANGED << input, net, call, cached_tags >>

Next ==
  \E i \in Parties :
    \/ Emit(i)
    \/ ApplyCached(i)
    \/ \E m \in net : Receive(i, m)
    \/ Finalize(i)

Spec == Init /\ [][Next]_vars

\* The step of party i's task.
PartyStep(i) ==
  \/ Emit(i)
  \/ ApplyCached(i)
  \/ \E m \in net : Receive(i, m)
  \/ Finalize(i)

\* Every party's task is scheduled as long as it can take a step, and the
\* dispatcher hands over every message it holds: a task that can step, steps.
FairSpec == Spec /\ \A i \in Parties : WF_vars(PartyStep(i))

\* --------------------------------------------- a session under any caller
\* The session of party 0 is called in any order and with any message: the
\* honest messages addressed to it (again and again, under any nearby round
\* tag) and malformed ones. The other parties run their rounds in lockstep.

Sut == sess[0]
Peers == Parties \ {0}
Garbage == << >>

\* The (from, round, body) a caller can hand to receive in this state.
ApiInputs ==
  LET cur == current_stage_num(Sut.state)
      near == {r \in (cur - 1) .. (cur + 2) : r >= 0}
      tags(m) == IF m.bytes[1] \in {cur, cur + 1} THEN near ELSE {m.bytes[1]}
  IN UNION { { [from |-> m.from, round |-> r, body |-> m.bytes[2]] : r \in tags(m) } :
              m \in {n \in net : n.to = 0} }
     \cup { [from |-> j, round |-> r, body |-> Garbage] :
              j \in Peers, r \in {cur, cur + 1} }

\* The message to sign does not reach the session layer: it is 0 here.
ApiInit ==
  \E seed \in Seeds, message \in {0} :
    /\ input = [seed |-> seed, message |-> message]
    /\ sess = [i \in Parties |->
         Session_new(PartyRng(seed, i), SharedRandomness, NumParties, i,
                     KeyShares(seed)[i], message)]
    /\ pc = [i \in Parties |-> IF i = 0 THEN "api" ELSE "start"]
    /\ fail = [i \in Parties |-> Ok]
    /\ net = {}
    /\ call = NoCall
    /\ cached_tags = << >>

\* The call returns `got`: the session is as the call left it, and a panic
\* ends the caller.
ApiStep(got) ==
  IF got.res = Panicked
  THEN /\ sess' = sess
       /\ pc' = [pc EXCEPT ![0] = "panicked"]
       /\ fail' = [fail EXCEPT ![0] = got.res]
  ELSE /\ sess' = [sess EXCEPT ![0] = got.session]
       /\ pc' = pc
       /\ fail' = fail

ApiGetMessages ==
  /\ pc[0] = "api"
  /\ \E got \in {Session_get_messages(Sut, Rng(0))} :
       /\ ApiStep(got)
       /\ net' = IF got.res = Ok THEN net \cup Outgoing(0, got.to_send[1]) ELSE net
       /\ call' = [op |-> "get_messages", from |-> -1, round |-> -1,
                   stage |-> current_stage_num(Sut.state), res |-> got.res]
  /\ UNCHANGED << input, cached_tags >>

ApiReceive(inp) ==
  /\ pc[0] = "api"
  /\ inp \in ApiInputs
  /\ Len(Sut.next_stage_messages) < MaxCache
  /\ \E got \in {Session_receive(Sut, inp.from,
                                    serialize_with_round(inp.round, inp.body))} :
       /\ ApiStep(got)
       /\ call' = [op |-> "receive", from |-> inp.from, round |-> inp.round,
                   stage |-> current_stage_num(Sut.state), res |-> got.res]
       /\ cached_tags' =
            IF Len(got.session.next_stage_messages) > Len(Sut.next_stage_messages)
            THEN Append(cached_tags, inp.round)
            ELSE cached_tags
  /\ UNCHANGED << input, net >>

ApiReceiveCached ==
  /\ pc[0] = "api"
  /\ \E got \in {Session_receive_cached_message(Sut)},
          n \in {Len(Sut.next_stage_messages)} :
       /\ ApiStep(got)
       /\ call' = [op |-> "receive_cached_message",
                   from |-> IF n = 0 THEN -1 ELSE Sut.next_stage_messages[n][1],
                   round |-> IF n = 0 THEN -1 ELSE cached_tags[n],
                   stage |-> current_stage_num(Sut.state), res |-> got.res]
       /\ cached_tags' = IF n = 0 THEN << >> ELSE SubSeq(cached_tags, 1, n - 1)
  /\ UNCHANGED << input, net >>

ApiFinalize ==
  /\ pc[0] = "api"
  /\ \E got \in {Session_finalize_stage(Sut, Rng(0))} :
       /\ ApiStep(got)
       /\ call' = [op |-> "finalize_stage", from |-> -1, round |-> -1,
                   stage |-> current_stage_num(Sut.state), res |-> got.res]
  /\ UNCHANGED << input, net, cached_tags >>

\* The other parties emit the messages of their round.
PeersEmit ==
  /\ \A j \in Peers : pc[j] = "start"
  /\ \E got \in {[j \in Peers |-> Session_get_messages(sess[j], Rng(j))]} :
       /\ sess' = [i \in Parties |-> IF i \in Peers THEN got[i].session ELSE sess[i]]
       /\ net' = net \cup UNION { Outgoing(j, got[j].to_send[1]) : j \in Peers }
  /\ pc' = [i \in Parties |-> IF i \in Peers THEN "recv" ELSE pc[i]]
  /\ UNCHANGED << input, fail, call, cached_tags >>

\* The messages of its round that party j has in the channel.
PeerInbox(j) ==
  {m \in net : m.to = j /\ m.bytes[1] = current_stage_num(sess[j].state)}

RECURSIVE ReceiveAll(_, _)
\* The session after receiving the messages msgs, up to the first error.
ReceiveAll(session, msgs) ==
  IF msgs = {} THEN [res |-> Ok, session |-> session]
  ELSE LET m == CHOOSE one \in msgs : TRUE
           got == Session_receive(session, m.from, m.bytes)
       IN IF got.res # Ok THEN got ELSE ReceiveAll(got.session, msgs \ {m})

\* Whether every call of the other parties returned Ok; a failed call ends them.
PeersStep(got, then) ==
  IF \A j \in Peers : got[j].res = Ok
  THEN /\ sess' = [i \in Parties |-> IF i \in Peers THEN got[i].session ELSE sess[i]]
       /\ pc' = [i \in Parties |-> IF i \in Peers THEN then[i] ELSE pc[i]]
       /\ fail' = fail
  ELSE /\ sess' = sess
       /\ pc' = [i \in Parties |-> IF i \in Peers THEN "panicked" ELSE pc[i]]
       /\ fail' = [i \in Parties |-> IF i \in Peers THEN got[i].res ELSE fail[i]]

\* The other parties receive the messages of their round.
PeersReceive ==
  /\ \A j \in Peers :
       /\ pc[j] = "recv"
       /\ {m.from : m \in PeerInbox(j)} = HoleRange(NumParties, j)
  /\ \E got \in {[j \in Peers |-> ReceiveAll(sess[j], PeerInbox(j))]} :
       PeersStep(got, [j \in Peers |-> "full"])
  /\ net' = net \ UNION { PeerInbox(j) : j \in Peers }
  /\ UNCHANGED << input, call, cached_tags >>

\* The other parties finalize their round.
PeersFinalize ==
  /\ \A j \in Peers : pc[j] = "full"
  /\ \E got \in {[j \in Peers |-> Session_finalize_stage(sess[j], Rng(j))]} :
       PeersStep(got, [j \in Peers |->
                        IF got[j].res = Ok /\ is_final_stage(got[j].session.state)
                        THEN "done" ELSE "start"])
  /\ UNCHANGED << input, net, call, cached_tags >>

ApiNext ==
  \/ ApiGetMessages
  \/ \E inp \in ApiInputs : ApiReceive(inp)
  \/ ApiReceiveCached
  \/ ApiFinalize
  \/ PeersEmit
  \/ PeersReceive
  \/ PeersFinalize

ApiSpec == ApiInit /\ [][ApiNext]_vars

\* ------------------------------------ a session handed messages of others
\* The session under any caller, where the caller also hands over messages
\* the other parties address to each other, under the sender's index.

ApiReceiveMisdirected(m) ==
  /\ pc[0] = "api"
  /\ m.from \in Peers /\ m.to \in Peers
  /\ Len(Sut.next_stage_messages) < MaxCache
  /\ \E got \in {Session_receive(Sut, m.from, m.bytes)} :
       /\ ApiStep(got)
       /\ call' = [op |-> "receive", from |-> m.from, round |-> m.bytes[1],
                   stage |-> current_stage_num(Sut.state), res |-> got.res]
       /\ cached_tags' =
            IF Len(got.session.next_stage_messages) > Len(Sut.next_stage_messages)
            THEN Append(cached_tags, m.bytes[1])
            ELSE cached_tags
  /\ UNCHANGED << input, net >>

MisdirectedNext ==
  \/ ApiNext
  \/ \E m \in net : ApiReceiveMisdirected(m)

MisdirectedSpec == ApiInit /\ [][MisdirectedNext]_vars

\* ------------------------------------------- a run with a corrupted proof
\* The honest run, except that one message of Round 2 (the third round of the
\* session) has a byte of its AffG proof psi changed on the way.

\* The number of the session's round that runs Round 2 of presigning.
Round2Num == 3

\* The body is a Round 2 message from `from` to party i whose psi is not the
\* proof for this pair of parties.
CorruptedFor(i, from, body) ==
  /\ deserialize_message(Round2Num, body).ok
  /\ ~AffGProof_verify(body[6], i, from, 0, 0, 0, 0, i, 0)

\* The parties a corrupted message is on its way to, waits in the cache of,
\* or was rejected by.
Victims ==
  {i \in Parties :
     \/ \E m \in net : m.to = i /\ CorruptedFor(i, m.from, m.bytes[2])
     \/ \E n \in DOMAIN sess[i].next_stage_messages :
          CorruptedFor(i, sess[i].next_stage_messages[n][1],
                       sess[i].next_stage_messages[n][2])
     \/ fail[i].error = "Failed to verify AffGProof (psi)"}

\* One byte of psi, in its first or in its second key, is changed in a message
\* on its way; no other message of the run is touched.
CorruptPsi(m) ==
  /\ m \in net
  /\ m.bytes[1] = Round2Num
  /\ Victims = {}
  /\ \E field \in {2, 3} :
       net' = (net \ {m}) \cup {[m EXCEPT !.bytes[2][6][field] = @ + 1]}
  /\ UNCHANGED << input, sess, pc, fail, call, cached_tags >>

CorruptNext ==
  \/ Next
  \/ \E m \in net : CorruptPsi(m)

CorruptSpec == Init /\ [][CorruptNext]_vars

\* --------------------------------------------- a run that loses messages
\* The honest run over a channel that never hands over what one party sends
\* in Round 3 of presigning (the fourth round of the session).

\* The number of the session's round that runs Round 3 of presigning.
Round3Num == 4

\* The party whose Round 3 messages are lost.
LostParty == 2

\* A channel that loses nothing.
Lost_none(m) == FALSE

\* The messages the channel never hands over.
Lost(m) == m.from = LostParty /\ m.bytes[1] = Round3Num

LossNext ==
  \E i \in Parties :
    \/ Emit(i)
    \/ ApplyCached(i)
    \/ \E m \in net : ~Lost(m) /\ Receive(i, m)
    \/ Finalize(i)

LossSpec == Init /\ [][LossNext]_vars

\* ------------------------------------------- a run with a wrong delta
\* The honest run, except that one message of Round 3 carries a delta that is
\* not its sender's.

\* The mask beta party j draws for party l in Round2::new.
HonestBeta(j, l) ==
  random_bounded_bits(PartyRng(input.seed, j),
                      5 + (NumParties - 1) + 2 * HolePos(l, j), LP_BOUND)

\* The delta share party j computes from the samples of the run.
HonestDelta(j) ==
  LET k == ScalarRandom(PartyRng(input.seed, j), 1)
      gamma(l) == ScalarRandom(PartyRng(input.seed, l), 2)
      others == HoleRange(NumParties, j)
  IN gamma(j) * k
     + SumOver([l \in others |-> k * gamma(l) - HonestBeta(l, j)], others)
     + SumOver([l \in others |-> HonestBeta(j, l)], others)

\* The body is a Round 3 message whose delta is not the one of `from`.
WrongDelta(from, body) ==
  /\ deserialize_message(Round3Num, body).ok
  /\ body[1][2] # to_scalar(HonestDelta(from))

\* The parties a message with a wrong delta is on its way to, waits in the
\* cache of, is stored by, or has made fail.
DeltaVictims ==
  {i \in Parties :
     \/ \E m \in net : m.to = i /\ WrongDelta(m.from, m.bytes[2])
     \/ \E n \in DOMAIN sess[i].next_stage_messages :
          WrongDelta(sess[i].next_stage_messages[n][1],
                     sess[i].next_stage_messages[n][2])
     \/ /\ current_stage_num(sess[i].state) = Round3Num
        /\ ~is_final_stage(sess[i].state)
        /\ sess[i].state.stage[1].accum # << >>
        /\ \E j \in DOMAIN sess[i].state.stage[1].accum[1] :
             /\ sess[i].state.stage[1].accum[1][j] # << >>
             /\ sess[i].state.stage[1].accum[1][j][1].delta
                  # to_scalar(HonestDelta(j))
     \/ fail[i] = ErrorRound}

\* The delta of one Round 3 message on its way is replaced by another scalar;
\* no other message of the run is touched.
CorruptDelta(m) ==
  /\ m \in net
  /\ m.bytes[1] = Round3Num
  /\ DeltaVictims = {}
  /\ \E offset \in {1, 2} :
       net' = (net \ {m})
              \cup {[m EXCEPT !.bytes[2][1][2] = (@ + offset) % ORDER]}
  /\ UNCHANGED << input, sess, pc, fail, call, cached_tags >>

DeltaNext ==
  \/ Next
  \/ \E m \in net : CorruptDelta(m)

DeltaSpec == Init /\ [][DeltaNext]_vars

\* ---------------------------------------- a run with a damaged Round 2 proof
\* The honest run, except that one of the three proofs of one Round 2 message
\* is damaged on the way.

\* What Round2::verify_received reports for psi, psi-hat and psi-hat-prime.
Round2Failures ==
  {"Failed to verify AffGProof (psi)", "Failed to verify AffGProof (psi_hat)",
   "Failed to verify LogStarProof"}

\* The body is a Round 2 message from `from` to party i one of whose proofs is
\* not the sender's for this pair of parties.
TamperedFor(i, from, body) ==
  /\ deserialize_message(Round2Num, body).ok
  /\ \/ ~AffGProof_verify(body[6], i, from, 0, 0, 0, 0, i, 0)
     \/ ~AffGProof_verify(body[7], i, from, 0, 0, 0, 0, i, 0)
     \/ body[8][2] # TRUE

TamperVictims ==
  {i \in Parties :
     \/ \E m \in net : m.to = i /\ TamperedFor(i, m.from, m.bytes[2])
     \/ \E n \in DOMAIN sess[i].next_stage_messages :
          TamperedFor(i, sess[i].next_stage_messages[n][1],
                      sess[i].next_stage_messages[n][2])
     \/ fail[i].error \in Round2Failures}

\* One proof of a Round 2 message on its way is damaged: a key of psi or of
\* psi-hat is changed, or psi-hat-prime becomes one of a witness out of range.
TamperProof(m) ==
  /\ m \in net
  /\ m.bytes[1] = Round2Num
  /\ TamperVictims = {}
  /\ \E damaged \in {[m EXCEPT !.bytes[2][6][2] = @ + 1],
                     [m EXCEPT !.bytes[2][7][2] = @ + 1],
                     [m EXCEPT !.bytes[2][8][2] = FALSE]} :
       net' = (net \ {m}) \cup {damaged}
  /\ UNCHANGED << input, sess, pc, fail, call, cached_tags >>

TamperNext ==
  \/ Next
  \/ \E m \in net : TamperProof(m)

TamperSpec == Init /\ [][TamperNext]_vars

\* ---------------------------------------------- a run with an equivocation
\* The honest run, except that one recipient of a Round 1a broadcast is handed
\* a K that differs from the one the other recipients get.

\* The K party j encrypts in Round1Part1::new.
HonestK(j) == Ciphertext(j, ScalarRandom(PartyRng(input.seed, j), 1))

\* The body is a Round 1a broadcast of `from` with another K.
OtherK(from, body) ==
  /\ deserialize_message(1, body).ok
  /\ DecCiphertext(body[1]) # HonestK(from)

\* The parties another K is on its way to, waits in the cache of, or is held by.
EquivocationVictims ==
  {i \in Parties :
     \/ \E m \in net : m.to = i /\ OtherK(m.from, m.bytes[2])
     \/ \E n \in DOMAIN sess[i].next_stage_messages :
          OtherK(sess[i].next_stage_messages[n][1],
                 sess[i].next_stage_messages[n][2])
     \/ /\ current_stage_num(sess[i].state) = 1
        /\ sess[i].state.stage[1].accum # << >>
        /\ \E j \in DOMAIN sess[i].state.stage[1].accum[1] :
             /\ sess[i].state.stage[1].accum[1][j] # << >>
             /\ sess[i].state.stage[1].accum[1][j][1].k_ciphertext # HonestK(j)
     \/ /\ current_stage_num(sess[i].state) \in 2 .. Round3Num
        /\ \E j \in Parties :
             sess[i].state.stage[1].round.k_ciphertexts[j] # HonestK(j)}

\* One copy of a Round 1a broadcast on its way carries another K.
Equivocate(m) ==
  /\ m \in net
  /\ m.bytes[1] = 1
  /\ EquivocationVictims = {}
  /\ net' = (net \ {m})
            \cup {[m EXCEPT !.bytes[2][1][3] = (@ + 1) % ORDER]}
  /\ UNCHANGED << input, sess, pc, fail, call, cached_tags >>

EquivocationNext ==
  \/ Next
  \/ \E m \in net : Equivocate(m)

EquivocationSpec == Init /\ [][EquivocationNext]_vars

\* ------------------------------------------------------ signed envelopes
\* A party signs one message of a session; the envelope may be changed in one
\* field on its way and is verified with the key of any party.

\* The hash is kept as the sequence of what is chained into it, under its
\* domain separation tag.
message_hash_no_round(session_id, round, message_type, payload) ==
  << "SignedMessage", session_id, message_type, payload >>

message_hash(session_id, round, message_type, payload) ==
  << "SignedMessage", session_id, round, message_type, payload >>

\* MessageType as the byte chained into the hash.
MessageTypes == 0 .. 2

\* A signature is kept as the key it was made with, the hash it is over and
\* the randomness of the signer: it verifies under that key for that hash.
sign_prehash_with_rng(rng, signer, prehash) == << "Signature", signer, prehash, rng >>

PrehashVerifier_verify_prehash(verifier, prehash, signature) ==
  signature[2] = verifier /\ signature[3] = prehash

VerifiedMessage_new(rng, signer, session_id, round, message_type, message_bytes) ==
  [session_id |-> session_id,
   round |-> round,
   message_type |-> message_type,
   payload |-> message_bytes,
   signature |-> sign_prehash_with_rng(
                   rng, signer,
                   message_hash(session_id, round, message_type, message_bytes))]

SignedMessage_verify(message, verifier) ==
  IF PrehashVerifier_verify_prehash(
       verifier,
       message_hash(message.session_id, message.round, message.message_type,
                    message.payload),
       message.signature)
  THEN Ok
  ELSE [fault |-> "TheirFault", party |-> -1, error |-> "VerificationFail"]

\* The session ids, rounds, payloads and signer randomness of the envelopes.
MaxSessionId == 1
MaxRound == 2
MaxPayload == 1
MaxNonce == 1

EnvelopeInputs ==
  [signer : Parties, session_id : 0 .. MaxSessionId, round : 1 .. MaxRound,
   message_type : MessageTypes, payload : 0 .. MaxPayload, rng : 0 .. MaxNonce]

EnvelopeInit ==
  /\ input \in EnvelopeInputs
  /\ sess = << >>
  /\ pc = [i \in Parties |-> "start"]
  /\ fail = [i \in Parties |-> Ok]
  /\ net = {}
  /\ call = NoCall
  /\ cached_tags = << >>

\* The signer wraps the message.
EnvelopeNew ==
  /\ pc[input.signer] = "start"
  /\ pc' = [pc EXCEPT ![input.signer] = "sent"]
  /\ net' = {VerifiedMessage_new(input.rng, input.signer, input.session_id,
                                 input.round, input.message_type,
                                 << input.payload >>)}
  /\ UNCHANGED << input, sess, fail, call, cached_tags >>

\* The envelopes that differ from e in exactly one of the four signed fields.
OneFieldChanged(e) ==
  {[e EXCEPT !.session_id = v] : v \in (0 .. MaxSessionId) \ {e.session_id}}
  \cup {[e EXCEPT !.round = v] : v \in (1 .. MaxRound) \ {e.round}}
  \cup {[e EXCEPT !.message_type = v] : v \in MessageTypes \ {e.message_type}}
  \cup {[e EXCEPT !.payload = << v >>] :
          v \in (0 .. MaxPayload) \ {e.payload[1]}}

\* The envelope is replayed with one field changed, before it is verified.
EnvelopeReplay ==
  /\ pc[input.signer] = "sent"
  /\ call = NoCall
  /\ \E e \in net : \E changed \in OneFieldChanged(e) : net' = {changed}
  /\ pc' = [pc EXCEPT ![input.signer] = "replayed"]
  /\ UNCHANGED << input, sess, fail, call, cached_tags >>

\* A recipient verifies the envelope with the key of party `verifier`.
EnvelopeVerify(verifier) ==
  /\ call = NoCall
  /\ \E e \in net :
       call' = [op |-> "verify", from |-> verifier, round |-> e.round,
                stage |-> -1, res |-> SignedMessage_verify(e, verifier)]
  /\ UNCHANGED << input, sess, pc, fail, net, cached_tags >>

EnvelopeNext ==
  \/ EnvelopeNew
  \/ EnvelopeReplay
  \/ \E verifier \in Parties : EnvelopeVerify(verifier)

EnvelopeSpec == EnvelopeInit /\ [][EnvelopeNext]_vars

\* ----------------------------------------------------------- key generation
\* Every party runs the three rounds of key generation under the driver loop
\* (emit, receive the round's messages in any order, finalize) and then
\* computes the verifying key of the share it ends with.

\* FullData::hash: the hash of the data under the shared randomness and the
\* index of the party (an ideal hash: equal exactly on equal inputs).
FullData_hash(data, shared_randomness, party_idx) ==
  << "Keygen", shared_randomness, party_idx,
     data.rid, data.public, data.commitment, data.u >>

\* SchProof::new / SchProof::verify: an ideal proof of knowledge of the
\* discrete logarithm of `public`, bound to the commitment and to aux.
SchProof_new(proof_secret, secret, commitment, public, aux) ==
  [knows |-> mul_by_generator(secret) = public
               /\ mul_by_generator(proof_secret) = commitment,
   commitment |-> commitment, public |-> public, aux |-> aux]

SchProof_verify(proof, commitment, public, aux) ==
  /\ proof.knows
  /\ proof.commitment = commitment
  /\ proof.public = public
  /\ proof.aux = aux

\* keygen Round1::new: the secret share, its public point, the commitment of
\* the Schnorr proof and the random strings rid and u (one bit each here).
KeygenRound1_new(rng, shared_randomness, party_idx) ==
  LET secret == ScalarRandom(rng, 1)
      proof_secret == ScalarRandom(rng, 2)
  IN [party_idx |-> party_idx,
      key_share |-> secret,
      sch_secret |-> proof_secret,
      shared_randomness |-> shared_randomness,
      data |-> [rid |-> Draw(rng, 3) % 2,
                public |-> mul_by_generator(secret),
                commitment |-> mul_by_generator(proof_secret),
                u |-> Draw(rng, 4) % 2]]

\* A party in round `num` of key generation: the context, what the earlier
\* rounds left (hashes, datas, rid), the accumulator of the round and the
\* share once round 3 is finalized.
KeygenState(num, context, hashes, datas, rid) ==
  [num |-> num, context |-> context, hashes |-> hashes, datas |-> datas,
   rid |-> rid,
   accum |-> [j \in HoleRange(NumParties, context.party_idx) |-> << >>],
   share |-> << >>]

\* to_send of rounds 1, 2 and 3: the hash, the data, the Schnorr proof.
KeygenRound_to_send(round) ==
  LET ctx == round.context
  IN CASE round.num = 1 ->
            [hash |-> FullData_hash(ctx.data, ctx.shared_randomness, ctx.party_idx)]
       [] round.num = 2 -> [data |-> ctx.data]
       [] OTHER ->
            [proof |-> SchProof_new(ctx.sch_secret, ctx.key_share,
                                    ctx.data.commitment, ctx.data.public,
                                    << ctx.shared_randomness, ctx.party_idx,
                                       round.rid >>)]

\* Round1::verify_received: the hash is taken as it comes.
KeygenRound1_verify_received(round, from, msg) ==
  [ok |-> TRUE, payload |-> msg.hash]

\* Round2::verify_received that does not compare the data with the hash.
KeygenRound2_verify_received_unchecked(round, from, msg) ==
  [ok |-> TRUE, payload |-> msg.data]

\* Round2::verify_received: the data must hash to what `from` sent in round 1.
KeygenRound2_verify_received(round, from, msg) ==
  IF FullData_hash(msg.data, round.context.shared_randomness, from)
       # round.hashes[from]
  THEN VerificationFail("Invalid hash")
  ELSE [ok |-> TRUE, payload |-> msg.data]

\* Round3::verify_received: the Schnorr proof of `from` for its public point.
KeygenRound3_verify_received(round, from, msg) ==
  LET party_data == round.datas[from]
      aux == << round.context.shared_randomness, from, round.rid >>
  IN IF ~SchProof_verify(msg.proof, party_data.commitment, party_data.public, aux)
     THEN VerificationFail("Schnorr verification failed")
     ELSE [ok |-> TRUE, payload |-> TRUE]

KeygenRound_verify_received(round, from, msg) ==
  CASE round.num = 1 -> KeygenRound1_verify_received(round, from, msg)
    [] round.num = 2 -> KeygenRound2_verify_received(round, from, msg)
    [] OTHER -> KeygenRound3_verify_received(round, from, msg)

RECURSIVE XorAll(_, _)
\* The xor of the bits f[j], j in S.
XorAll(f, S) ==
  IF S = {} THEN 0
  ELSE LET j == CHOOSE j \in S : TRUE IN (f[j].rid + XorAll(f, S \ {j})) % 2

\* Round3::finalize that puts the party's own public point first.
KeygenRound3_finalize_own_first(round, datas) ==
  LET others == HoleRange(NumParties, round.context.party_idx)
      order == [n \in 1 .. NumParties - 1 |->
                  CHOOSE j \in others : Cardinality({l \in others : l < j}) = n - 1]
  IN [public |-> [j \in Parties |->
                    IF j = 0 THEN round.context.data.public
                    ELSE datas[order[j]].public],
      secret |-> round.context.key_share]

\* Round3::finalize: the public points of all parties, the party's own at its
\* own index, and the secret.
KeygenRound3_finalize(round, datas) ==
  [public |-> [j \in Parties |->
                 IF j = round.context.party_idx THEN round.context.data.public
                 ELSE datas[j].public],
   secret |-> round.context.key_share]

\* finalize of rounds 1, 2 and 3 on the payloads of every other party.
KeygenRound_finalize(round, payloads) ==
  CASE round.num = 1 ->
         KeygenState(2, round.context, payloads, << >>, 0)
    [] round.num = 2 ->
         KeygenState(3, round.context, round.hashes, payloads,
                     (round.context.data.rid
                        + XorAll(payloads, DOMAIN payloads)) % 2)
    [] OTHER ->
         [round EXCEPT !.share = << KeygenRound3_finalize(round, round.datas) >>]

\* KeyShare::verifying_key: the sum of the public shares as a verifying key;
\* the unwrap fails for the point at infinity.
KeyShare_verifying_key(share) ==
  LET point == PointSum(share.public, Parties)
  IN IF point = IDENTITY
     THEN [res |-> Panicked, key |-> << >>]
     ELSE [res |-> Ok, key |-> << point >>]

KeygenInit ==
  /\ input \in [seed : Seeds, message : {0}]
  /\ sess = [i \in Parties |->
       KeygenState(1, KeygenRound1_new(Rng(i), SharedRandomness, i),
                   << >>, << >>, 0)]
  /\ pc = [i \in Parties |-> "start"]
  /\ fail = [i \in Parties |-> Ok]
  /\ net = {}
  /\ call = NoCall
  /\ cached_tags = << >>

\* get_messages: the broadcast of the round goes to every other party.
KeygenEmit(i) ==
  /\ pc[i] = "start"
  /\ net' = net \cup {[from |-> i, to |-> j,
                       bytes |-> << sess[i].num, KeygenRound_to_send(sess[i]) >>] :
                        j \in HoleRange(NumParties, i)}
  /\ pc' = [pc EXCEPT ![i] = "recv"]
  /\ UNCHANGED << input, sess, fail, call, cached_tags >>

\* receive of a message of the party's round: a payload that verifies fills
\* the sender's slot, an error ends the party's task.
KeygenReceive(i, m) ==
  /\ pc[i] = "recv"
  /\ m.to = i
  /\ m.bytes[1] = sess[i].num
  /\ sess[i].accum[m.from] = << >>
  /\ \E got \in {KeygenRound_verify_received(sess[i], m.from, m.bytes[2])} :
       IF got.ok
       THEN /\ sess' = [sess EXCEPT ![i].accum[m.from] = << got.payload >>]
            /\ UNCHANGED << pc, fail >>
       ELSE /\ pc' = [pc EXCEPT ![i] = "panicked"]
            /\ fail' = [fail EXCEPT ![i] = TheirFault(m.from, got.error)]
            /\ UNCHANGED sess
  /\ net' = net \ {m}
  /\ UNCHANGED << input, call, cached_tags >>

\* finalize_stage once every slot is filled.
KeygenFinalize(i) ==
  /\ pc[i] = "recv"
  /\ \A j \in DOMAIN sess[i].accum : sess[i].accum[j] # << >>
  /\ \E next \in {KeygenRound_finalize(sess[i],
                    [j \in DOMAIN sess[i].accum |-> sess[i].accum[j][1]])} :
       /\ sess' = [sess EXCEPT ![i] = next]
       /\ pc' = [pc EXCEPT ![i] = IF next.share = << >> THEN "start" ELSE "share"]
  /\ UNCHANGED << input, fail, net, call, cached_tags >>

KeygenVerifyingKey(i) ==
  /\ pc[i] = "share"
  /\ \E got \in {KeyShare_verifying_key(sess[i].share[1])} :
       /\ pc' = [pc EXCEPT ![i] = IF got.res = Ok THEN "done" ELSE "panicked"]
       /\ fail' = [fail EXCEPT ![i] = got.res]
  /\ UNCHANGED << input, sess, net, call, cached_tags >>

KeygenNext ==
  \E i \in Parties :
    \/ KeygenEmit(i)
    \/ \E m \in net : KeygenReceive(i, m)
    \/ KeygenFinalize(i)
    \/ KeygenVerifyingKey(i)

KeygenSpec == KeygenInit /\ [][KeygenNext]_vars

\* ------------------------------------ key generation with a changed message
\* Key generation as above, except that one message of round 1 or round 2 is
\* changed on the way: it carries another public point (in round 1, the hash
\* of the data with that point).

\* The data of the sender with another public point.
ChangedData(from) ==
  [sess[from].context.data EXCEPT !.public = (@ + 1) % ORDER]

\* What the sender of m sends in the round of m.
KeygenHonestBody(m) ==
  LET ctx == sess[m.from].context
  IN IF m.bytes[1] = 1
     THEN [hash |-> FullData_hash(ctx.data, ctx.shared_randomness, ctx.party_idx)]
     ELSE [data |-> ctx.data]

\* Whether a message has been changed in this run: it is on the way, or a
\* party holds the changed hash, or a party has rejected the sender.
KeygenTouched ==
  \/ \E m \in net : m.bytes[1] \in {1, 2} /\ m.bytes[2] # KeygenHonestBody(m)
  \/ \E i \in Parties : fail[i].fault = "TheirFault"
  \/ \E i \in Parties : \E j \in HoleRange(NumParties, i) :
       LET honest == FullData_hash(sess[j].context.data, SharedRandomness, j)
       IN \/ sess[i].num = 1 /\ sess[i].accum[j] \notin {<< >>, << honest >>}
          \/ sess[i].num > 1 /\ sess[i].hashes[j] # honest

KeygenTamper(m) ==
  /\ ~KeygenTouched
  /\ m.bytes[1] \in {1, 2}
  /\ net' = (net \ {m}) \cup
       {[m EXCEPT !.bytes[2] =
           IF m.bytes[1] = 1
           THEN [hash |-> FullData_hash(ChangedData(m.from), SharedRandomness, m.from)]
           ELSE [data |-> ChangedData(m.from)]]}
  /\ UNCHANGED << input, sess, pc, fail, call, cached_tags >>

KeygenTamperNext ==
  \/ KeygenNext
  \/ \E m \in net : KeygenTamper(m)

KeygenTamperSpec == KeygenInit /\ [][KeygenTamperNext]_vars

\* ------------------------------------------------------- properties of a run

\* Every party has finalized the last round and holds its result.
AllDone ==
  \A i \in Parties :
    pc[i] = "done" /\ Session_result(sess[i]).res = Ok

\* Party i has finished presigning and holds the triple in its signing round.
Presigned(i) ==
  sess[i].state.num = StagesNum /\ ~is_final_stage(sess[i].state)

Presigning(i) == sess[i].state.stage[1].round.context.presigning

\* The key the shares of the run add up to.
VerifyingKey == verifying_key_as_point(KeyShares(input.seed)[0])

\* C1: when every party of an honest run has completed interactive signing,
\* the signature (r, s) of each party verifies under the aggregate key
\* X = sum of the public shares for the prehashed message of the session.
C1_SignatureVerifies ==
  AllDone =>
    \A i \in Parties :
      verify_prehash(VerifyingKey, input.message, sess[i].state.result[1])

\* All parties are done and party 0 holds a signature with r and s in range.
C1_Witness ==
  /\ AllDone
  /\ sess[0].state.result[1].r \in 1 .. (ORDER - 1)
  /\ sess[0].state.result[1].s \in 1 .. (ORDER - 1)

\* C2: once interactive signing has completed on all parties every party
\* holds the same (r, s), and any two parties that have finished presigning
\* hold the same nonce point R, whatever the order of delivery.
C2_SameSignature ==
  /\ AllDone => \A i, j \in Parties : sess[i].state.result = sess[j].state.result
  /\ \A i, j \in Parties :
       Presigned(i) /\ Presigned(j) => Presigning(i).nonce = Presigning(j).nonce

\* All parties are done, after a run in which all of them held a nonce.
C2_Witness ==
  /\ AllDone
  /\ net = {}
  /\ \A i \in Parties : sess[i].state.result[1] = sess[0].state.result[1]

\* C3: when presigning has finished at all parties, the product shares add
\* up to (sum of k_i) * (sum of x_i) and every nonce is (sum of k_i)^-1 * G.
C3_PresigningTriple ==
  (\A i \in Parties : Presigned(i)) =>
    LET k == ScalarSum([i \in Parties |-> Presigning(i).ephemeral_scalar_share],
                       Parties)
        x == ScalarSum([i \in Parties |-> KeyShares(input.seed)[i].secret_share],
                       Parties)
        chi == ScalarSum([i \in Parties |-> Presigning(i).product_share], Parties)
    IN /\ chi = ScalarMul(k, x)
       /\ k # 0
       /\ \A i \in Parties : Presigning(i).nonce = mul_by_generator(invert(k))

\* Presigning has finished at all parties and none has finished signing.
C3_Witness == \A i \in Parties : Presigned(i) /\ pc[i] # "done"

\* The samples of the run: the sums of the k_i, the gamma_i and the x_i.
SampledK == ScalarSum([i \in Parties |-> ScalarRandom(PartyRng(input.seed, i), 1)], Parties)
SampledGamma == ScalarSum([i \in Parties |-> ScalarRandom(PartyRng(input.seed, i), 2)], Parties)
SecretKey ==
  ScalarSum([i \in Parties |-> KeyShares(input.seed)[i].secret_share], Parties)

\* The samples give a signature: k * gamma is invertible, and r and s of the
\* nonce k^-1 * G are not zero.
NonDegenerate ==
  /\ input.seed \in Seeds
  /\ ScalarMul(SampledK, SampledGamma) # 0
  /\ LET r == x_coordinate(mul_by_generator(invert(SampledK)))
     IN /\ r # 0
        /\ ScalarMul(SampledK, ScalarAdd(input.message, ScalarMul(r, SecretKey))) # 0

NoPartyFails == \A i \in Parties : pc[i] # "panicked"

\* Party i's task has a step to take: the guards of Emit, ApplyCached,
\* Receive and Finalize.
CanStep(i) ==
  \/ pc[i] \in {"start", "cached"}
  \/ /\ pc[i] = "recv"
     /\ \/ Session_is_finished_receiving(sess[i]).value
        \/ \E m \in net : m.to = i

\* How far party i's driver loop has come: rounds finalized, then messages
\* emitted, received and applied within the round.
Rank(i) ==
  CASE pc[i] = "panicked" -> 1000
    [] pc[i] = "done" -> 20 * (StagesNum + 1)
    [] pc[i] = "start" ->
         20 * sess[i].state.num + Len(sess[i].next_stage_messages)
    [] OTHER ->
         LET slots == sess[i].state.stage[1].accum[1]
         IN 20 * sess[i].state.num + 1
            + 2 * Cardinality({j \in DOMAIN slots : slots[j] # << >>})
            + Len(sess[i].next_stage_messages)

Progress == SumOver([i \in Parties |-> Rank(i)], Parties)

C9_LookAheadOfOne ==
  /\ \A m \in net :
       (pc[m.to] = "recv" /\ ~Session_is_finished_receiving(sess[m.to]).value) =>
         LET stage_num == current_stage_num(sess[m.to].state)
             framed == deserialize_with_round(m.bytes)
         IN /\ framed.ok
            /\ framed.round \in {stage_num, stage_num + 1}
            /\ framed.round <= StagesNum
  /\ \A i \in Parties : fail[i].error # "OutOfOrderMessage"
  /\ AllDone => net = {}

\* A party holds a cached message: it has received one of the next round.
C9_Witness ==
  \E i \in Parties : pc[i] = "recv" /\ has_cached_messages(sess[i])

\* ------------------------------------------------ the order of delivery

\* The messages waiting for party i at the dispatcher.
Pending(i) == {m \in net : m.to = i}

\* Every order in which the messages of S can be handed over.
Orders(S) ==
  {p \in [1 .. Cardinality(S) -> S] : \A a, b \in DOMAIN p : p[a] = p[b] => a = b}

RECURSIVE DrainCache(_)
\* while has_cached_messages: receive_cached_message.
DrainCache(session) ==
  IF ~has_cached_messages(session) THEN [res |-> Ok, session |-> session]
  ELSE LET got == Session_receive_cached_message(session)
       IN IF got.res # Ok THEN got ELSE DrainCache(got.session)

RECURSIVE DriverRun(_, _, _, _)
\* The driver loop of a party that is receiving, fed the messages `msgs` in
\* this order: it finalizes as soon as the round is complete, emits, applies
\* the cache and goes on receiving. `log` keeps the accumulator of every round
\* finalized on the way and the result of its finalize.
DriverRun(session, rng, msgs, log) ==
  IF is_final_stage(session.state)
  THEN [res |-> Ok, session |-> session, log |-> log]
  ELSE IF Session_is_finished_receiving(session).value
  THEN LET fin == Session_finalize_stage(session, rng)
           logged == Append(log, [accum |-> session.state.stage[1].accum,
                                  res |-> fin.res])
       IN IF fin.res # Ok \/ is_final_stage(fin.session.state)
          THEN [res |-> fin.res, session |-> fin.session, log |-> logged]
          ELSE LET emitted == Session_get_messages(fin.session, rng)
                   drained == DrainCache(emitted.session)
               IN IF emitted.res # Ok
                  THEN [res |-> emitted.res, session |-> emitted.session, log |-> logged]
                  ELSE IF drained.res # Ok
                  THEN [res |-> drained.res, session |-> drained.session, log |-> logged]
                  ELSE DriverRun(drained.session, rng, msgs, logged)
  ELSE IF msgs = << >>
  THEN [res |-> Ok, session |-> session, log |-> log]
  ELSE LET got == Session_receive(session, msgs[1].from, msgs[1].bytes)
       IN IF got.res # Ok
          THEN [res |-> got.res, session |-> got.session, log |-> log]
          ELSE DriverRun(got.session, rng, Tail(msgs), log)

\* The signature of the samples of the run: r of the nonce k^-1 * G and
\* s = k * (m + r * x), in the low half.
ExpectedSignature ==
  LET r == x_coordinate(mul_by_generator(invert(SampledK)))
  IN [r |-> r,
      s |-> normalize(ScalarMul(SampledK,
                                ScalarAdd(input.message, ScalarMul(r, SecretKey))))]

\* C11: for the randomness of the run, whatever order the messages waiting
\* for a receiving party are handed over in (those of the next round going
\* through the cache when they come before the round is complete), the party
\* ends with the same accumulators, the same finalize results and the same
\* session; and every completed run ends with the (r, s) of its samples.
C11_OrderIndependence ==
  /\ \A i \in Parties :
       pc[i] = "recv" =>
         Cardinality({DriverRun(sess[i], Rng(i), p, << >>) :
                        p \in Orders(Pending(i))}) = 1
  /\ AllDone =>
       \A i \in Parties :
         /\ sess[i].state.result[1].r = ExpectedSignature.r
         /\ sess[i].state.result[1].s = ExpectedSignature.s

\* A receiving party with nothing received yet has the two messages of its
\* round and the two of the next round waiting: some orders go through the
\* cache, and every order finalizes two rounds.
C11_Witness ==
  \E i \in Parties :
    /\ pc[i] = "recv"
    /\ Cardinality(Pending(i)) = 2 * (NumParties - 1)
    /\ \E m \in Pending(i) : m.bytes[1] = current_stage_num(sess[i].state) + 1
    /\ \A p \in Orders(Pending(i)) :
         Len(DriverRun(sess[i], Rng(i), p, << >>).log) = 2

\* ------------------------------------------- properties of a session's calls

\* The bodies a caller can hand over in this state.
OfferedBodies == {inp.body : inp \in ApiInputs}

\* The session under test is in a receiving state.
Receiving == ~is_final_stage(Sut.state) /\ Sut.state.stage[1].accum # << >>

\* C5: receive with the tag of the next round (within the rounds) puts the
\* body in the cache without deserializing or verifying it and leaves the
\* current round as it is; once the session has moved to the round of the
\* tag, receive_cached_message applies the body to that round, to the slot
\* of the sender.
C5_CachedForNextRound ==
  LET cur == current_stage_num(Sut.state)
      n == Len(Sut.next_stage_messages)
  IN /\ \A inp \in ApiInputs :
          (inp.round = cur + 1 /\ inp.round <= StagesNum) =>
            LET got == Session_receive(Sut, inp.from,
                                       serialize_with_round(inp.round, inp.body))
            IN /\ got.res = Ok
               /\ got.session.state = Sut.state
               /\ got.session.next_stage_messages =
                    Append(Sut.next_stage_messages, << inp.from, inp.body >>)
     /\ (n > 0 /\ cached_tags[n] = cur /\ Receiving) =>
          LET from == Sut.next_stage_messages[n][1]
              body == Sut.next_stage_messages[n][2]
              got == Session_receive_cached_message(Sut)
              message == deserialize_message(cur, body)
          IN /\ got.session.next_stage_messages =
                  SubSeq(Sut.next_stage_messages, 1, n - 1)
             /\ got.session.state.num = cur
             /\ got.res = Ok =>
                  /\ message.ok
                  /\ Sut.state.stage[1].accum[1][from] = << >>
                  /\ got.session.state.stage[1].accum[1][from] =
                       << round_verify_received(cur, Sut.state.stage[1].round, from,
                                                message.message).payload >>
             /\ got.res # Ok => got.session.state = Sut.state

\* A body cached one round ahead has been applied to the slot of its sender
\* in the round of its tag.
C5_Witness ==
  /\ call.op = "receive_cached_message"
  /\ call.res = Ok
  /\ call.round = call.stage
  /\ Receiving
  /\ Sut.state.stage[1].accum[1][call.from] # << >>

\* C6: receive with a tag that is neither the current round nor the next one
\* within the rounds returns the out-of-order error and changes neither the
\* accumulator, nor the cache, nor the round number.
C6_OutOfOrder ==
  LET cur == current_stage_num(Sut.state)
  IN \A from \in Peers, round \in 0 .. (StagesNum + 2), body \in OfferedBodies :
       (round # cur /\ ~(round = cur + 1 /\ round <= StagesNum)) =>
         Session_receive(Sut, from, serialize_with_round(round, body)) =
           [res |-> TheirFault(from, "OutOfOrderMessage"), session |-> Sut]

\* In the last round a message tagged with the round after it was rejected.
C6_Witness ==
  /\ call.op = "receive"
  /\ call.res = TheirFault(call.from, "OutOfOrderMessage")
  /\ call.stage = StagesNum
  /\ call.round = StagesNum + 1

\* C7: whatever the order of the calls, a cached body is handed to a round
\* only if it came with the tag of that round.
C7_Isolation ==
  (call.op = "receive_cached_message" /\ call.round # -1) =>
    call.round = call.stage

\* C8: the cache never holds bodies of two different rounds.
C8_OneRoundInCache ==
  \A a, b \in DOMAIN cached_tags : cached_tags[a] = cached_tags[b]

\* C10: once the slot of sender j is filled, a further message of the round
\* from j, handed over directly or through the cache, is rejected as j's
\* fault (as a duplicate when it is a message of the round) and the slot and
\* the rest of the round stay as they are.
C10_Duplicate ==
  Receiving =>
    LET cur == current_stage_num(Sut.state)
        slots == Sut.state.stage[1].accum[1]
        n == Len(Sut.next_stage_messages)
    IN \A j \in DOMAIN slots :
         slots[j] # << >> =>
           /\ \A body \in OfferedBodies :
                LET got == Session_receive(Sut, j, serialize_with_round(cur, body))
                IN /\ got.session = Sut
                   /\ got.res.fault = "TheirFault"
                   /\ got.res.party = j
                   /\ deserialize_message(cur, body).ok =>
                        got.res.error = "DuplicateMessage"
           /\ (n > 0 /\ Sut.next_stage_messages[n][1] = j) =>
                LET got == Session_receive_cached_message(Sut)
                IN /\ got.session.state = Sut.state
                   /\ got.res.fault = "TheirFault"
                   /\ got.res.party = j
                   /\ deserialize_message(cur, Sut.next_stage_messages[n][2]).ok =>
                        got.res.error = "DuplicateMessage"

\* A cached message of a sender whose slot was filled was rejected as a
\* duplicate, and the slot is still filled.
C10_Witness ==
  /\ call.op = "receive_cached_message"
  /\ call.res = TheirFault(call.from, "DuplicateMessage")
  /\ call.round = call.stage
  /\ Receiving
  /\ Sut.state.stage[1].accum[1][call.from] # << >>

\* The parties whose slot of the current round holds a payload.
Filled(session) ==
  IF is_final_stage(session.state) \/ session.state.stage[1].accum = << >>
  THEN {}
  ELSE {j \in DOMAIN session.state.stage[1].accum[1] :
          session.state.stage[1].accum[1][j] # << >>}

\* The last call handed a message to the current round and it was accepted.
Accepted ==
  /\ call.res = Ok
  /\ \/ call.op = "receive" /\ call.round = call.stage
     \/ call.op = "receive_cached_message"

\* C12: in a receiving state is_finished_receiving returns true exactly when
\* a payload has been accepted from every party but the session's own: the
\* slots are empty when the round starts receiving, a slot is filled by an
\* accepted message of its sender and by nothing else, and the answer is
\* true iff the filled slots are those of all other parties.
C12_FinishedReceiving ==
  [][Receiving' =>
       /\ Session_is_finished_receiving(Sut') =
            [res |-> Ok, value |-> Filled(Sut') = Parties \ {Sut'.index}]
       /\ Filled(Sut') = IF ~Receiving THEN {}
                         ELSE IF Accepted' /\ call' # call
                         THEN Filled(Sut) \cup {call'.from}
                         ELSE Filled(Sut)]_vars

\* The last accepted message completed the round: is_finished_receiving is true.
C12_Witness ==
  /\ Receiving
  /\ Accepted
  /\ Session_is_finished_receiving(Sut).value
  /\ Filled(Sut) = Peers

\* C13: finalize_stage succeeds only in a receiving state with every slot
\* filled; with a slot empty it returns MyFault and the session (round,
\* accumulator, cache) is as before, so that a later finalize can succeed.
C13_FinalizeNeedsAll ==
  LET fin == Session_finalize_stage(Sut, Rng(0))
  IN /\ fin.res = Ok => Receiving /\ Filled(Sut) = Parties \ {Sut.index}
     /\ (Receiving /\ Filled(Sut) # Parties \ {Sut.index}) =>
          fin = [res |-> MyFault("Messages from some of the parties are missing"),
                 session |-> Sut]

\* A finalize with one slot filled and one empty failed, and the session is
\* still in the round, receiving.
C13_Witness ==
  /\ call.op = "finalize_stage"
  /\ call.res = MyFault("Messages from some of the parties are missing")
  /\ call.stage = current_stage_num(Sut.state)
  /\ Receiving
  /\ Filled(Sut) # {}
  /\ Filled(Sut) # Peers

\* C14: every error is terminal for the session: after a call that returned
\* an error the next call on the session does not succeed, and the session
\* neither moves to another round nor yields a result.
C14_ErrorsTerminal ==
  [][call.res # Ok =>
       /\ call' = call \/ call'.res # Ok
       /\ current_stage_num(Sut'.state) = current_stage_num(Sut.state)
       /\ Sut'.state.result = Sut.state.result]_vars

\* The session under test has not emitted the messages of its round yet.
Sending == ~is_final_stage(Sut.state) /\ Sut.state.stage[1].accum = << >>

\* Every call made in the wrong phase returns MyFault and leaves the session
\* as it is.
WrongPhaseIsMyFault ==
  LET cur == current_stage_num(Sut.state)
  IN /\ Receiving =>
          Session_get_messages(Sut, Rng(0)) =
            [res |-> MyFault("The session is not in a sending state"),
             session |-> Sut, to_send |-> << >>]
     /\ Sending =>
          /\ \A from \in Peers, body \in OfferedBodies :
               Session_receive(Sut, from, serialize_with_round(cur, body)) =
                 [res |-> MyFault("The session is in a sending stage, cannot receive messages"),
                  session |-> Sut]
          /\ Session_is_finished_receiving(Sut).res =
               MyFault("Not in a receiving state")
          /\ Session_finalize_stage(Sut, Rng(0)) =
               [res |-> MyFault("The session is in a sending stage, cannot receive messages"),
                session |-> Sut]
     /\ ~has_cached_messages(Sut) =>
          Session_receive_cached_message(Sut) =
            [res |-> MyFault("No more cached messages left"), session |-> Sut]

\* C15: a call in the wrong phase is reported as MyFault, never as TheirFault:
\* get_messages a second time in a round; receive of a message of the current
\* round, is_finished_receiving and finalize_stage before the get_messages of
\* the round; receive_cached_message with an empty cache. A get_messages that
\* succeeds starts the receiving state, which lasts as long as the round, so
\* that get_messages succeeds at most once per round.
C15_WrongPhase ==
  /\ []WrongPhaseIsMyFault
  /\ [][/\ (call'.op = "get_messages" /\ call'.res = Ok /\ call' # call) =>
             Sending /\ Receiving'
        /\ (Receiving /\ current_stage_num(Sut'.state) = current_stage_num(Sut.state)
              /\ ~is_final_stage(Sut'.state)) => Receiving']_vars

\* get_messages was called a second time in a round and failed as MyFault.
C15_Witness ==
  /\ call.op = "get_messages"
  /\ call.res = MyFault("The session is not in a sending state")
  /\ Receiving
  /\ Filled(Sut) # {}

\* The bodies a message can carry in this state: those on offer to the
\* session under test and those the other parties address to each other.
ContentBodies == OfferedBodies \cup {m.bytes[2] : m \in {n \in net : n.from \in Peers}}

InvalidSenders == {Sut.index, NumParties}

\* C17: a message from a sender that is no other party is rejected with an
\* error that blames the sender, whatever its round tag, and is neither
\* stored nor cached.
C17_InvalidSender ==
  Receiving =>
    LET cur == current_stage_num(Sut.state)
    IN \A from \in InvalidSenders, round \in {cur, cur + 1, cur + 2},
          body \in OfferedBodies :
         LET got == Session_receive(Sut, from, serialize_with_round(round, body))
         IN /\ got.session = Sut
            /\ got.res.fault = "TheirFault"
            /\ got.res.party = from

\* ------------------------------------- properties of a run with a fault

\* C18: when a Round 2 message carries a psi that does not verify, the
\* receive of the party it is for reports TheirFault(sender, failed psi) and
\* leaves the slot empty, that party never finalizes Round 2, and no party
\* ever holds a signature.
C18_CorruptedPsi ==
  Victims # {} =>
    /\ \A m \in net :
         (/\ CorruptedFor(m.to, m.from, m.bytes[2])
          /\ current_stage_num(sess[m.to].state) = Round2Num
          /\ sess[m.to].state.stage[1].accum # << >>) =>
           Session_receive(sess[m.to], m.from, m.bytes) =
             [res |-> TheirFault(m.from, "Failed to verify AffGProof (psi)"),
              session |-> sess[m.to]]
    /\ \A i \in Parties :
         fail[i] # Ok =>
           /\ fail[i].fault = "TheirFault"
           /\ fail[i].error = "Failed to verify AffGProof (psi)"
           /\ fail[i].party \in Parties \ {i}
           /\ sess[i].state.stage[1].accum[1][fail[i].party] = << >>
    /\ \A i \in Victims :
         /\ current_stage_num(sess[i].state) <= Round2Num
         /\ ~(/\ current_stage_num(sess[i].state) = Round2Num
              /\ Session_is_finished_receiving(sess[i]).value)
    /\ \A i \in Parties :
         /\ pc[i] # "done"
         /\ Session_result(sess[i]).res # Ok
         /\ ~is_final_stage(sess[i].state)

\* The party the corrupted message was for has rejected it and stopped in
\* Round 2; the others wait in the round after it with nothing left to receive.
C18_Witness ==
  \E i \in Parties :
    /\ fail[i].error = "Failed to verify AffGProof (psi)"
    /\ current_stage_num(sess[i].state) = Round2Num
    /\ \A j \in Parties \ {i} :
         /\ pc[j] = "recv"
         /\ current_stage_num(sess[j].state) = Round2Num + 1
         /\ Pending(j) = {}

Round3Delta(i) ==
  LET round == sess[i].state.stage[1].round
      payloads == HoleVecAccum_finalize(sess[i].state.stage[1].accum[1])
      range == DOMAIN payloads
  IN [delta |-> ScalarAdd(ScalarSum([j \in range |-> payloads[j].delta], range),
                          to_scalar(round.delta)),
      big_delta |-> PointAdd(
                      PointSum([j \in range |-> payloads[j].big_delta], range),
                      round.big_delta)]

\* C20: whenever party i holds every Round 3 message and delta * G = Delta,
\* Round 3's finalize returns the triple (R, k_i, chi_i) with
\* R = Gamma * delta^-1, whatever the value of delta.
C20_Round3Result ==
  \A i \in Parties :
    (/\ current_stage_num(sess[i].state) = Round3Num
     /\ Session_is_finished_receiving(sess[i]).value
     /\ mul_by_generator(Round3Delta(i).delta) = Round3Delta(i).big_delta) =>
      LET round == sess[i].state.stage[1].round
          delta == Round3Delta(i).delta
          fin == Round3_finalize(round, Rng(i),
                   HoleVecAccum_finalize(sess[i].state.stage[1].accum[1]))
      IN /\ fin.outcome = "Result"
         /\ ScalarMul(delta, invert(delta)) = 1
         /\ fin.result =
              [nonce |-> PointMul(round.big_gamma, invert(delta)),
               ephemeral_scalar_share |-> round.context.ephemeral_scalar_share,
               product_share |-> round.product_share]
         /\ Session_finalize_stage(sess[i], Rng(i)).res = Ok

\* Party i holds every Round 3 message and the sums do not pass the
\* comparison delta * G = Delta.
InvalidDelta(i) ==
  /\ current_stage_num(sess[i].state) = Round3Num
  /\ Session_is_finished_receiving(sess[i]).value
  /\ mul_by_generator(Round3Delta(i).delta) # Round3Delta(i).big_delta

\* C21: when delta * G = Delta fails at a party, its finalize returns an
\* error and leaves the session in Round 3, no call of the session changes
\* that, and the party holds neither a presigning triple nor a signature.
C21_InvalidDelta ==
  /\ \A i \in Parties :
       InvalidDelta(i) =>
         /\ Session_finalize_stage(sess[i], Rng(i)) =
              [res |-> ErrorRound, session |-> sess[i]]
         /\ Session_get_messages(sess[i], Rng(i)).res # Ok
         /\ Session_get_messages(sess[i], Rng(i)).session.state = sess[i].state
         /\ Session_receive_cached_message(sess[i]).session.state = sess[i].state
         /\ \A m \in Pending(i) :
              Session_receive(sess[i], m.from, m.bytes).session.state
                = sess[i].state
  /\ \A i \in DeltaVictims :
       /\ current_stage_num(sess[i].state) <= Round3Num
       /\ ~Presigned(i)
       /\ Session_result(sess[i]).res # Ok
       /\ pc[i] # "done"
       /\ fail[i] \in {Ok, ErrorRound}
       /\ (current_stage_num(sess[i].state) = Round3Num
           /\ Session_is_finished_receiving(sess[i]).value) => InvalidDelta(i)

\* A party has stopped in Round 3 on the error of its finalize while another
\* party, whose messages were all honest, has finished presigning.
C21_Witness ==
  \E i \in Parties :
    /\ InvalidDelta(i)
    /\ fail[i] = ErrorRound
    /\ pc[i] = "panicked"
    /\ \E j \in Parties \ {i} : Presigned(j)

\* The auxiliary input a proof was made with (the Enc and LogStar proofs keep
\* it as their last field).
AuxOf(proof) == proof[Len(proof)]

\* C22: every Enc or LogStar proof on its way was made with the auxiliary
\* input (shared randomness, index of the sender), and the party it is for
\* accepts it against the index of the sender.
C22_AuxBindsSender ==
  \A m \in net :
    LET body == m.bytes[2]
        proofs == CASE m.bytes[1] = 2 -> {body[1]}
                    [] m.bytes[1] = Round2Num -> {body[8]}
                    [] m.bytes[1] = Round3Num -> {body[3]}
                    [] OTHER -> {}
    IN \A proof \in proofs : AuxOf(proof) = << SharedRandomness, m.from >>

\* The three proofs of the Round 2 message msg from `from` verify at party i.
Round2ProofsVerify(i, from, msg) ==
  LET round == sess[i].state.stage[1].round
      aux == << SharedRandomness, from >>
  IN /\ AffGProof_verify(msg.psi, i, from, round.k_ciphertexts[i],
                         msg.d, msg.f, msg.gamma, i, aux)
     /\ AffGProof_verify(msg.psi_hat, i, from, round.k_ciphertexts[i], msg.d_hat,
                         msg.f_hat, round.context.key_share.public_shares[from],
                         i, aux)
     /\ LogStarProof_verify(msg.psi_hat_prime, from, round.g_ciphertexts[from],
                            GENERATOR, msg.gamma, i, aux)

\* C23: a Round 2 message handed to receive fills the slot of its sender,
\* with (Gamma_j, alpha, alpha-hat, D) from the decryption of D and D-hat under
\* the receiver's key, exactly when psi, psi-hat and psi-hat-prime all verify;
\* otherwise receive returns TheirFault with a verification failure and the
\* session is as before.
C23_AllThreeProofs ==
  /\ \A m \in net :
       (/\ m.bytes[1] = Round2Num
        /\ current_stage_num(sess[m.to].state) = Round2Num
        /\ m.from \in Parties \ (Filled(sess[m.to]) \cup {m.to})
        /\ sess[m.to].state.stage[1].accum # << >>) =>
         LET i == m.to
             msg == deserialize_message(Round2Num, m.bytes[2]).message
             got == Session_receive(sess[i], m.from, m.bytes)
         IN IF Round2ProofsVerify(i, m.from, msg)
            THEN /\ got.res = Ok
                 /\ got.session.state.stage[1].accum[1][m.from] =
                      << [gamma |-> msg.gamma,
                          alpha |-> decrypt_signed(msg.d, i),
                          alpha_hat |-> to_scalar(decrypt_signed(msg.d_hat, i)),
                          cap_d |-> msg.d] >>
            ELSE /\ got.res.fault = "TheirFault"
                 /\ got.res.party = m.from
                 /\ got.res.error \in Round2Failures
                 /\ got.session = sess[i]
  /\ \A i \in TamperVictims :
       /\ current_stage_num(sess[i].state) <= Round2Num
       /\ fail[i] # Ok =>
            /\ fail[i].fault = "TheirFault"
            /\ fail[i].error \in Round2Failures
            /\ current_stage_num(sess[i].state) = Round2Num
            /\ fail[i].party \notin Filled(sess[i])

\* A party has rejected a message whose psi-hat-prime was damaged, after
\* storing the payload of another sender; the slot of the message is empty.
C23_Witness ==
  \E i \in Parties :
    /\ fail[i].error = "Failed to verify LogStarProof"
    /\ fail[i].party \notin Filled(sess[i])
    /\ Filled(sess[i]) # {}

\* C24: two parties past Round 1a hold the same K and the same G for every
\* third party, and a party handed another K than the other recipients stops
\* with TheirFault in Round 1a.
C24_EquivocationDetected ==
  /\ \A i, j \in Parties :
       (/\ current_stage_num(sess[i].state) \in 2 .. Round3Num
        /\ current_stage_num(sess[j].state) \in 2 .. Round3Num) =>
         \A sender \in Parties \ {i, j} :
           /\ sess[i].state.stage[1].round.k_ciphertexts[sender]
                = sess[j].state.stage[1].round.k_ciphertexts[sender]
           /\ sess[i].state.stage[1].round.g_ciphertexts[sender]
                = sess[j].state.stage[1].round.g_ciphertexts[sender]
  /\ \A i \in EquivocationVictims : current_stage_num(sess[i].state) = 1

\* C25: the envelope VerifiedMessage::new builds verifies under the key of
\* its signer; with any one of session id, round, message type and payload
\* changed, or under the key of another party, verify fails with
\* VerificationFail.
C25_SignedEnvelope ==
  call.op = "verify" =>
    /\ call.res = Ok <=> (call.from = input.signer /\ pc[input.signer] = "sent")
    /\ call.res \in {Ok, [fault |-> "TheirFault", party |-> -1,
                           error |-> "VerificationFail"]}

\* An envelope replayed under another round was rejected under the key of its
\* signer.
C25_Witness ==
  /\ call.op = "verify"
  /\ call.from = input.signer
  /\ pc[input.signer] = "replayed"
  /\ call.round # input.round
  /\ call.res # Ok

\* The typed messages party i's current round sends, as a set.
TypedMessages(i) ==
  LET stage == sess[i].state.stage[1]
      typed == round_to_send(stage.num, stage.round, Rng(i))
  IN IF typed.kind = "Broadcast"
     THEN {typed.message}
     ELSE {typed.messages[idx] : idx \in DOMAIN typed.messages}

SummedSigma(i) ==
  LET stage == sess[i].state.stage[1]
      payloads == HoleVecAccum_finalize(stage.accum[1])
  IN ScalarAdd(ScalarSum(payloads, DOMAIN payloads), stage.round.s_part)

SigningFinished(i) ==
  /\ current_stage_num(sess[i].state) = StagesNum
  /\ ~is_final_stage(sess[i].state)
  /\ Session_is_finished_receiving(sess[i]).value

C28_VerifyingKeyExists ==
  \A i \in Parties :
    sess[i].share # << >> =>
      /\ PointSum(sess[i].share[1].public, Parties)
           = mul_by_generator(ScalarSum([j \in Parties |->
                                           ScalarRandom(Rng(j), 1)], Parties))
      /\ PointSum(sess[i].share[1].public, Parties) # IDENTITY
      /\ KeyShare_verifying_key(sess[i].share[1]).res = Ok
      /\ fail[i] = Ok

\* C29: the round number of a session never decreases; it changes only in a
\* finalize_stage that returns Ok, and then by exactly one; a finalize_stage
\* that returns Ok moves to the next round unless it ends the last one; the
\* stage held is the one of the current number.
C29_RoundMonotonic ==
  [][LET cur == current_stage_num(Sut.state)
         nxt == current_stage_num(Sut'.state)
     IN /\ nxt >= cur
        /\ nxt # cur =>
             /\ call'.op = "finalize_stage" /\ call'.res = Ok
             /\ call'.stage = cur
             /\ nxt = cur + 1
        /\ (call' # call /\ call'.op = "finalize_stage" /\ call'.res = Ok) =>
             IF is_final_stage(Sut'.state)
             THEN nxt = cur /\ cur = stages_num(Sut.state)
             ELSE nxt = cur + 1
        /\ ~is_final_stage(Sut'.state) =>
             /\ Sut'.state.stage[1].num = nxt
             /\ nxt \in 1 .. stages_num(Sut'.state)]_vars

\* The session has moved through every round, one finalize_stage at a time.
C29_Witness ==
  /\ call.op = "finalize_stage" /\ call.res = Ok
  /\ current_stage_num(Sut.state) = call.stage + 1
  /\ current_stage_num(Sut.state) = stages_num(Sut.state)

\* The messages party i hands over in this step.
Emitted(i) == {m \in net' : m.from = i} \ net

\* C30: a get_messages that returns Ok hands over one broadcast, or one direct
\* message for each other party and none for the caller; the messages sent
\* are one for every other party, none for the sender, and each carries the
\* number of the sender's current round.
C30_EmitOnePerPeer ==
  [][/\ \A i \in Parties :
          Emitted(i) # {} =>
            /\ {m.to : m \in Emitted(i)} = Parties \ {i}
            /\ Cardinality(Emitted(i)) = NumParties - 1
            /\ \A m \in Emitted(i) :
                 /\ deserialize_with_round(m.bytes).ok
                 /\ deserialize_with_round(m.bytes).round
                      = current_stage_num(sess[i].state)
                 /\ current_stage_num(sess'[i].state)
                      = current_stage_num(sess[i].state)
     /\ (call' # call /\ call'.op = "get_messages" /\ call'.res = Ok) =>
          LET got == Session_get_messages(Sut, Rng(0))
          IN /\ Emitted(0) = Outgoing(0, got.to_send[1])
             /\ Emitted(0) # {}
             /\ call'.stage = current_stage_num(Sut.state)
             /\ got.to_send[1].kind = "Direct" =>
                  DOMAIN got.to_send[1].messages = Parties \ {0}]_vars

\* The session under test has emitted the direct messages of the third round,
\* which are with the dispatcher.
C30_Witness ==
  /\ call.op = "get_messages" /\ call.res = Ok /\ call.stage = Round2Num
  /\ \A j \in Peers : \E m \in net :
       m.from = 0 /\ m.to = j /\ deserialize_with_round(m.bytes).round = Round2Num

\* The parties that have ended key generation with a share.
WithShare == {i \in Parties : sess[i].share # << >>}

KeygenTaken(i) ==
  IF net' \ net = {} /\ pc[i] = "recv" /\ sess[i].num = 2
  THEN {m \in net \ net' : m.to = i /\ m.bytes[1] = 2}
  ELSE {}

\* C32: in round 2 of key generation the data of a sender is stored exactly
\* when it hashes, under the shared randomness and the sender's index, to the
\* hash the party holds from the sender's round 1 broadcast; otherwise the
\* receive fails with a verification failure blamed on the sender and the
\* party is as before. The data a party holds in round 3 hash to the hashes it
\* holds, and the public shares it ends with are the points of those data.
C32_CommitThenReveal ==
  [][\A i \in Parties :
       /\ \A m \in KeygenTaken(i) :
            IF FullData_hash(m.bytes[2].data, SharedRandomness, m.from)
                 = sess[i].hashes[m.from]
            THEN /\ sess'[i].accum[m.from] = << m.bytes[2].data >>
                 /\ fail'[i] = fail[i]
            ELSE /\ fail'[i] = TheirFault(m.from, "Invalid hash")
                 /\ sess'[i] = sess[i]
       /\ sess'[i].num = 3 =>
            \A j \in HoleRange(NumParties, i) :
              /\ FullData_hash(sess'[i].datas[j], SharedRandomness, j)
                   = sess'[i].hashes[j]
              /\ sess'[i].share # << >> =>
                   sess'[i].share[1].public[j] = sess'[i].datas[j].public
              /\ sess'[i].hashes[j]
                     = FullData_hash(sess'[j].context.data, SharedRandomness, j)
                   => sess'[i].datas[j] = sess'[j].context.data]_vars

\* A party has rejected the changed data of a sender whose hash it holds, and
\* the sender's slot is empty.
C32_Witness ==
  \E i \in Parties : \E j \in HoleRange(NumParties, i) :
    /\ fail[i] = TheirFault(j, "Invalid hash")
    /\ sess[i].num = 2
    /\ sess[i].accum[j] = << >>
    /\ sess[i].hashes[j] = FullData_hash(sess[j].context.data, SharedRandomness, j)

\* C33: in the honest run, whatever the order of delivery, a party that holds
\* every Round 3 message finds delta * G = Delta: the delta shares add up to
\* (sum of gamma_i) * (sum of k_i), the Delta shares to (sum of k_i) * Gamma,
\* and no finalize returns the error of an invalid delta.
C33_HonestDelta ==
  \A i \in Parties :
    /\ fail[i] # ErrorRound
    /\ (/\ current_stage_num(sess[i].state) = Round3Num
        /\ Session_is_finished_receiving(sess[i]).value) =>
         /\ Round3Delta(i).delta = ScalarMul(SampledGamma, SampledK)
         /\ Round3Delta(i).big_delta
              = PointMul(mul_by_generator(SampledGamma), SampledK)
         /\ sess[i].state.stage[1].round.big_gamma = mul_by_generator(SampledGamma)
         /\ mul_by_generator(Round3Delta(i).delta) = Round3Delta(i).big_delta
         /\ Session_finalize_stage(sess[i], Rng(i)).res # ErrorRound

\* Every party holds every Round 3 message and the check passes on a delta
\* that is not zero.
C33_Witness ==
  \A i \in Parties :
    /\ current_stage_num(sess[i].state) = Round3Num
    /\ Session_is_finished_receiving(sess[i]).value
    /\ Round3Delta(i).delta # 0
    /\ mul_by_generator(Round3Delta(i).delta) = Round3Delta(i).big_delta

\* The alpha party `to` decrypts from the Round 2 message of party `from`.
HonestAlpha(from, to) ==
  ScalarRandom(PartyRng(input.seed, from), 2) * ScalarRandom(PartyRng(input.seed, to), 1)
    - HonestBeta(from, to)

\* C34: alpha = gamma_j * k_i - beta with 0 <= gamma_j, k_i < q < 2^l and
\* |beta| <= 2^l' is within the asserted bound 2^(max(2 l, l') + 1): at the
\* ends of the ranges, for every Round 2 message on its way in the honest
\* run, and for every alpha a party has stored.
C34_AlphaBound ==
  /\ ORDER < Pow2(L_BOUND)
  /\ \A gamma \in {0, 1, ORDER - 1}, k \in {0, 1, ORDER - 1},
        beta \in {0 - Pow2(LP_BOUND), 0, Pow2(LP_BOUND)} :
       assert_bound_usize(gamma * k - beta, AlphaBound)
  /\ \A m \in net :
       m.bytes[1] = Round2Num =>
         LET msg == deserialize_message(Round2Num, m.bytes[2]).message
             alpha == decrypt_signed(msg.d, m.to)
         IN /\ alpha = HonestAlpha(m.from, m.to)
            /\ HonestBeta(m.from, m.to) \in (0 - Pow2(LP_BOUND)) .. Pow2(LP_BOUND)
            /\ assert_bound_usize(alpha, AlphaBound)
  /\ \A i \in Parties :
       current_stage_num(sess[i].state) = Round2Num =>
         \A j \in Filled(sess[i]) :
           LET alpha == sess[i].state.stage[1].accum[1][j][1].alpha
           IN /\ alpha = HonestAlpha(j, i)
              /\ assert_bound_usize(alpha, AlphaBound)

\* A party has stored an alpha that is beyond the bound of the mask alone.
C34_Witness ==
  \E i \in Parties :
    /\ current_stage_num(sess[i].state) = Round2Num
    /\ \E j \in Filled(sess[i]) :
         ~assert_bound_usize(sess[i].state.stage[1].accum[1][j][1].alpha, LP_BOUND)

StillDue ==
  {m \in net : /\ m.to = 0
               /\ m.bytes[1] = current_stage_num(Sut.state)
               /\ m.from \notin Filled(Sut)}

\* C36: a receive that returns an error leaves the session as it was (round
\* number, every slot of the accumulator, the cache); after it the honest
\* message of a sender whose slot is empty is still accepted into that slot.
C36_FailedReceive ==
  [][(call' # call /\ call'.op = "receive" /\ call'.res # Ok) =>
       /\ Sut' = Sut
       /\ cached_tags' = cached_tags
       /\ Receiving' =>
            \A m \in StillDue' :
              LET got == Session_receive(Sut', m.from, m.bytes)
              IN /\ got.res = Ok
                 /\ Filled(got.session) = Filled(Sut) \cup {m.from}]_vars

\* A message of a sender to another party has failed verification at the
\* session under test, the sender's slot is empty, and the sender's message
\* for the session is still to come.
C36_Witness ==
  /\ call.op = "receive"
  /\ call.res.fault = "TheirFault"
  /\ call.res.error \notin {"DeserializationError", "OutOfOrderMessage",
                            "DuplicateMessage"}
  /\ Receiving
  /\ call.from \notin Filled(Sut)
  /\ \E m \in StillDue : m.from = call.from

\* The cache of the session under test.
Cache == Sut.next_stage_messages

\* C37: a receive_cached_message made with a non-empty cache takes the last
\* entry out of the cache and leaves the others, whether applying the entry
\* succeeds or fails (a failure leaves the round as it is); the cache grows
\* only by a receive that caches its message, so no entry comes back.
C37_CachedEntryRemoved ==
  [][/\ (/\ call'.op = "receive_cached_message"
         /\ call' # call \/ Sut' # Sut
         /\ Cache # << >>
         /\ call'.res # Panicked) =>
          /\ Cache' = SubSeq(Cache, 1, Len(Cache) - 1)
          /\ call'.from = Cache[Len(Cache)][1]
          /\ call'.res # Ok => Sut'.state = Sut.state
     /\ Len(Cache') > Len(Cache) =>
          /\ call'.op = "receive" /\ call'.res = Ok
          /\ call'.round = call'.stage + 1
          /\ Cache' = Append(Cache, Cache'[Len(Cache')])
     /\ (Cache' # Cache /\ Len(Cache') <= Len(Cache)) =>
          /\ call'.op = "receive_cached_message"
          /\ Cache' = SubSeq(Cache, 1, Len(Cache) - 1)]_vars

\* Applying a cached entry has failed verification, the entry is gone and the
\* one cached before it is still there.
C37_Witness ==
  /\ call.op = "receive_cached_message"
  /\ call.res.fault = "TheirFault"
  /\ call.res.error \notin {"DeserializationError", "DuplicateMessage"}
  /\ Len(Cache) = 1
  /\ Len(cached_tags) = 1

\* The senders of the entries in the cache of party i, in order.
CacheSenders(i) ==
  [n \in DOMAIN sess[i].next_stage_messages |-> sess[i].next_stage_messages[n][1]]

\* C38: in the honest run under the driver loop the cache of a party never
\* holds more than N - 1 entries, never two of the same sender, and never
\* one of the party itself.
C38_CacheBound ==
  \A i \in Parties :
    /\ Len(sess[i].next_stage_messages) <= NumParties - 1
    /\ \A n, l \in DOMAIN CacheSenders(i) :
         CacheSenders(i)[n] = CacheSenders(i)[l] => n = l
    /\ \A n \in DOMAIN CacheSenders(i) :
         CacheSenders(i)[n] \in HoleRange(NumParties, i)

\* The cache of a party holds an entry of every other party.
C38_Witness ==
  \E i \in Parties :
    /\ Len(sess[i].next_stage_messages) = NumParties - 1
    /\ {CacheSenders(i)[n] : n \in DOMAIN CacheSenders(i)} = HoleRange(NumParties, i)

\* What party j broadcasts in Round 1a of the run.
Round1Broadcast(j) ==
  Round1Part1_to_send(
    Round1Part1_new(PartyRng(input.seed, j), SharedRandomness,
                    KeyShares(input.seed)[j])).message

\* The parties that have finalized Round 1a and are in a round of presigning.
PastRound1a ==
  {i \in Parties : /\ ~is_final_stage(sess[i].state)
                   /\ current_stage_num(sess[i].state) \in 2 .. Round3Num}

\* C39: a party that has finalized Round 1a holds K and G vectors with an
\* entry for each of the N parties, entry j being the ciphertext party j
\* broadcast (its own at its own index), in every later round of presigning;
\* the vectors of all such parties are the same.
C39_SameCiphertexts ==
  /\ \A i \in PastRound1a :
       LET round == sess[i].state.stage[1].round
       IN /\ DOMAIN round.k_ciphertexts = Parties
          /\ DOMAIN round.g_ciphertexts = Parties
          /\ \A j \in Parties :
               /\ round.k_ciphertexts[j] = Round1Broadcast(j).k_ciphertext
               /\ round.g_ciphertexts[j] = Round1Broadcast(j).g_ciphertext
          /\ round.k_ciphertexts[i]
               = Ciphertext(i, round.context.ephemeral_scalar_share)
          /\ round.g_ciphertexts[i] = Ciphertext(i, round.context.gamma)
  /\ Cardinality({<< sess[i].state.stage[1].round.k_ciphertexts,
                     sess[i].state.stage[1].round.g_ciphertexts >> :
                    i \in PastRound1a}) <= 1

\* Every party has finalized Round 1a; one is in Round 1b and one in Round 2.
C39_Witness ==
  /\ PastRound1a = Parties
  /\ \E i \in Parties : current_stage_num(sess[i].state) = 2
  /\ \E i \in Parties : current_stage_num(sess[i].state) = Round2Num

====
